---- MODULE Spec2Model ----
(***************************************************************************)
(* A model of the OpiWeb trading gateway back end (src/backend): the       *)
(* in-memory Store, the authentication handshake, the signed-order         *)
(* validation and forwarding path and the take-profit (TP) monitor.        *)
(*                                                                         *)
(* Strings that the code builds by formatting (rate-limit keys,            *)
(* idempotency keys) are sequences of tokens, so that a formatted key is   *)
(* what the f-string produces and two keys are equal exactly when the      *)
(* strings are.  Random identifiers (nonces, session tokens, arm ids) are  *)
(* fresh numbers.  Time is a global integer clock.                         *)
(***************************************************************************)
EXTENDS Integers, Sequences, FiniteSets, TLC

VARIABLES
    now,               \* time.time()
    nonces,            \* InMemoryStore._nonces: lower-cased address -> record
    sessions,          \* InMemoryStore._sessions: token -> session
    rate_limits,       \* InMemoryStore._rate_limits: key -> list of timestamps
    tp_arms,           \* InMemoryStore._tp_arms: arm_id -> arm state
    idempotency_keys,  \* InMemoryStore._idempotency_keys
    tasks,             \* TpEngine._tasks: arm_id -> the monitor coroutine's position and locals
    next_id,           \* the next fresh nonce, session token and arm id
    upstream,          \* history: the post_signed_order calls of the monitors, in order
    last,              \* the last HTTP request handled and its response
    admitted,          \* history: per rate-limit key, the timestamps of the calls that returned true
    consumed           \* history: nonce -> number of times consume_nonce returned its record

vars == <<now, nonces, sessions, rate_limits, tp_arms, idempotency_keys, tasks,
          next_id, upstream, last, admitted, consumed>>

(***************************************************************************)
(* Bounds of the model.  The configuration values (backend/config.py reads *)
(* them from the environment) are scaled to the model's clock.             *)
(***************************************************************************)
MaxTime == 2
MaxNonces == 2
MaxSessions == 1
NONCE_TTL_SECONDS == 1
SESSION_TTL_SECONDS == 1
AUTH_RATE_LIMIT_MAX_REQUESTS == 2
AUTH_RATE_LIMIT_WINDOW_SECONDS == 1

\* nonce="{nonce}": the placeholder of the stored message template (real nonces are >= 1)
NoncePlaceholder == 0
CHAIN_ID == 137

(***************************************************************************)
(* Addresses.  "0xAA" is "0xaa" in another letter case; "0xzz" is not an   *)
(* address.  "0xpp" is a proxy wallet.  NoSigner: signature recovery       *)
(* raised.                                                                 *)
(***************************************************************************)
Addresses == {"0xaa", "0xAA", "0xbb"}
NotAnAddress == "0xzz"
ProxyAddress == "0xpp"
NoSigner == "none"

\* str.lower()
Lower(a) == IF a = "0xAA" THEN "0xaa" ELSE a

\* eth_utils.is_address, as validate_eth_address uses it
validate_eth_address(address) == address \in Addresses \cup {ProxyAddress}

\* dict helpers
Put(d, k, v) == [x \in DOMAIN d \cup {k} |-> IF x = k THEN v ELSE d[x]]
Pop(d, k) == [x \in DOMAIN d \ {k} |-> d[x]]
Get(d, k, default) == IF k \in DOMAIN d THEN d[k] ELSE default
EmptyDict == [x \in {} |-> 0]

\* list comprehension [ts for ts in s if ts >= floor]
RECURSIVE Since(_, _)
Since(s, floor) ==
    IF s = <<>> THEN <<>>
    ELSE IF Head(s) >= floor THEN <<Head(s)>> \o Since(Tail(s), floor)
         ELSE Since(Tail(s), floor)

(***************************************************************************)
(* Store: nonces                                                           *)
(***************************************************************************)
\* build_siwe_message: the text is determined by address, chain id, nonce and issue time
build_siwe_message(address, nonce, chain_id) ==
    [address |-> address, chain_id |-> chain_id, nonce |-> nonce, issued_at |-> now]

\* str.replace("{nonce}", nonce)
ReplaceNonce(message, nonce) ==
    IF message.nonce = NoncePlaceholder THEN [message EXCEPT !.nonce = nonce] ELSE message

\* InMemoryStore.create_nonce: the new map (the nonce itself is next_id.nonce)
create_nonce_case_sensitive(address, message) ==
    Put(nonces, address,
        [nonce |-> next_id.nonce, message |-> message,
         created_at |-> now, expires_at |-> now + NONCE_TTL_SECONDS])
create_nonce(address, message) ==
    Put(nonces, Lower(address),
        [nonce |-> next_id.nonce, message |-> message,
         created_at |-> now, expires_at |-> now + NONCE_TTL_SECONDS])

\* record["expires_at"] < time.time()
NonceExpired(record) == record.expires_at < now

\* InMemoryStore.consume_nonce: [ok, record, nonces]
consume_nonce_no_pop(address, nonce) ==
    LET key == Lower(address) IN
    IF key \notin DOMAIN nonces THEN [ok |-> FALSE, record |-> EmptyDict, nonces |-> nonces]
    ELSE IF NonceExpired(nonces[key])
         THEN [ok |-> FALSE, record |-> EmptyDict, nonces |-> Pop(nonces, key)]
    ELSE IF nonces[key].nonce # nonce
         THEN [ok |-> FALSE, record |-> EmptyDict, nonces |-> nonces]
    ELSE [ok |-> TRUE, record |-> nonces[key], nonces |-> nonces]
consume_nonce(address, nonce) ==
    LET key == Lower(address) IN
    IF key \notin DOMAIN nonces THEN [ok |-> FALSE, record |-> EmptyDict, nonces |-> nonces]
    ELSE IF NonceExpired(nonces[key])
         THEN [ok |-> FALSE, record |-> EmptyDict, nonces |-> Pop(nonces, key)]
    ELSE IF nonces[key].nonce # nonce
         THEN [ok |-> FALSE, record |-> EmptyDict, nonces |-> nonces]
    ELSE [ok |-> TRUE, record |-> nonces[key], nonces |-> Pop(nonces, key)]

(***************************************************************************)
(* Store: sessions                                                         *)
(***************************************************************************)
\* InMemoryStore.create_session: the session stored under the fresh token
SessionRecord(token, eoa_address, clob_creds, trading_context, created_at) ==
    [token |-> token, eoa_address |-> eoa_address, clob_creds |-> clob_creds,
     trading_context |-> trading_context, created_at |-> created_at,
     expires_at |-> created_at + SESSION_TTL_SECONDS]

create_session(eoa_address, clob_creds, trading_context) ==
    SessionRecord(next_id.token, eoa_address, clob_creds, trading_context, now)

\* InMemoryStore.get_session: [ok, session, sessions]
get_session_keep_expired(token) ==
    IF token = 0 \/ token \notin DOMAIN sessions
    THEN [ok |-> FALSE, session |-> EmptyDict, sessions |-> sessions]
    ELSE [ok |-> TRUE, session |-> sessions[token], sessions |-> sessions]
get_session(token) ==
    IF token = 0 THEN [ok |-> FALSE, session |-> EmptyDict, sessions |-> sessions]
    ELSE IF token \notin DOMAIN sessions
         THEN [ok |-> FALSE, session |-> EmptyDict, sessions |-> sessions]
    ELSE IF sessions[token].expires_at < now
         THEN [ok |-> FALSE, session |-> EmptyDict, sessions |-> Pop(sessions, token)]
    ELSE [ok |-> TRUE, session |-> sessions[token], sessions |-> sessions]

\* InMemoryStore.delete_session
delete_session(token) == Pop(sessions, token)

(***************************************************************************)
(* Store: rate limiter                                                     *)
(***************************************************************************)
\* key = f"{bucket}:{ip}"
RateKey(bucket, ip) == bucket \o <<":">> \o ip

\* InMemoryStore.allow_rate_limit: [ok, entries] (entries is what is stored under key)
allow_rate_limit_off_by_one(key, max_requests, window_seconds) ==
    LET floor == now - window_seconds
        entries == Since(Get(rate_limits, key, <<>>), floor)
    IN IF Len(entries) > max_requests
       THEN [ok |-> FALSE, entries |-> entries]
       ELSE [ok |-> TRUE, entries |-> Append(entries, now)]
allow_rate_limit(key, max_requests, window_seconds) ==
    LET floor == now - window_seconds
        entries == Since(Get(rate_limits, key, <<>>), floor)
    IN IF Len(entries) >= max_requests
       THEN [ok |-> FALSE, entries |-> entries]
       ELSE [ok |-> TRUE, entries |-> Append(entries, now)]

(***************************************************************************)
(* Auth (backend/auth.py) and the resolver (backend/resolver.py)           *)
(***************************************************************************)
\* recover_personal_signer: a signature is named by the address it recovers to
\* (NoSigner: Account.recover_message raised, which the function turns into a 400)
recover_personal_signer(message, signature) == signature

\* recover_clob_auth_signer: [ok, detail]
recover_clob_auth_signer_no_compare(address, signature) ==
    IF signature = NoSigner THEN [ok |-> FALSE, detail |-> "Invalid CLOB auth signature"]
    ELSE [ok |-> TRUE, detail |-> ""]
recover_clob_auth_signer(address, signature) ==
    IF signature = NoSigner THEN [ok |-> FALSE, detail |-> "Invalid CLOB auth signature"]
    ELSE IF Lower(signature) # Lower(address)
         THEN [ok |-> FALSE, detail |-> "CLOB auth signer mismatch"]
    ELSE [ok |-> TRUE, detail |-> ""]

\* the JSON body of a credential response: a key the body lacks is ""
CredentialPayloads(address) ==
    { [apiKey |-> <<"key", address>>, secret |-> s, passphrase |-> <<"passphrase", address>>] :
        s \in {<<"secret", address>>, <<>>} }

\* the status codes the CLOB answers the two credential calls with
HttpStatuses == {200, 304, 500}

\* requests.Response.ok: raise_for_status() does not raise, which it does for the
\* status codes from 400 to 599
response_ok_2xx(status_code) == status_code \in 200 .. 299
response_ok(status_code) == ~(status_code \in 400 .. 599)

\* derive_clob_api_creds: create_status / derive_status are the status codes of the
\* POST and of the GET, payload is the JSON of the response that is used;
\* [ok, detail, codes, calls, creds], codes being the two status codes that the
\* detail of the first error ends with ("create=..., derive=...")
derive_clob_api_creds(address, create_status, derive_status, payload) ==
    LET create_resp == [call |-> "POST /auth/api-key", status |-> create_status]
        derive_resp == [call |-> "GET /auth/derive-api-key", status |-> derive_status]
        calls == IF response_ok(create_status) THEN <<create_resp>>
                 ELSE <<create_resp, derive_resp>>
    IN IF ~response_ok(create_status) /\ ~response_ok(derive_status)
       THEN [ok |-> FALSE, detail |-> "Failed to derive CLOB API credentials",
             codes |-> [create |-> create_status, derive |-> derive_status],
             calls |-> calls, creds |-> EmptyDict]
       ELSE IF payload.apiKey = <<>> \/ payload.secret = <<>> \/ payload.passphrase = <<>>
            THEN [ok |-> FALSE, detail |-> "CLOB credential payload missing fields",
                  codes |-> EmptyDict, calls |-> calls, creds |-> EmptyDict]
       ELSE [ok |-> TRUE, detail |-> "", codes |-> EmptyDict, calls |-> calls,
             creds |-> [api_key |-> payload.apiKey, api_secret |-> payload.secret,
                        api_passphrase |-> payload.passphrase]]

\* what the wallet-metadata service can answer for an EOA: no service configured,
\* an exception, no other address in the blob, or an address found in the blob
WalletAnswers == {"unavailable", "raises", "none", ProxyAddress, "0xAA", "0xaa"}

\* TradingContextResolver.resolve ("" is None)
resolve_mode_only(eoa_address, wallet) ==
    LET context == [eoa_address |-> eoa_address, trading_address |-> eoa_address,
                    funder_address |-> "", signature_type |-> 0, mode |-> "eoa",
                    chain_id |-> CHAIN_ID, dome_wallet |-> "", resolver_warning |-> FALSE]
    IN IF wallet = "unavailable" THEN context
       ELSE IF wallet = "raises" THEN [context EXCEPT !.resolver_warning = TRUE]
       ELSE IF wallet # "none" /\ Lower(wallet) # Lower(eoa_address)
            THEN [context EXCEPT !.dome_wallet = wallet, !.trading_address = wallet,
                                 !.funder_address = wallet, !.mode = "proxy"]
       ELSE [context EXCEPT !.dome_wallet = wallet]
resolve(eoa_address, wallet) ==
    LET context == [eoa_address |-> eoa_address, trading_address |-> eoa_address,
                    funder_address |-> "", signature_type |-> 0, mode |-> "eoa",
                    chain_id |-> CHAIN_ID, dome_wallet |-> "", resolver_warning |-> FALSE]
    IN IF wallet = "unavailable" THEN context
       ELSE IF wallet = "raises" THEN [context EXCEPT !.resolver_warning = TRUE]
       ELSE IF wallet # "none" /\ Lower(wallet) # Lower(eoa_address)
            THEN [context EXCEPT !.dome_wallet = wallet, !.trading_address = wallet,
                                 !.funder_address = wallet, !.signature_type = 2,
                                 !.mode = "proxy"]
       ELSE [context EXCEPT !.dome_wallet = wallet]

(***************************************************************************)
(* HTTP surface (backend/main.py): one action per request handled          *)
(***************************************************************************)
\* the response of a request: status, detail of an HTTPException, JSON body, Set-Cookie
\* (n tells two equal requests in a row apart; calls are the upstream calls it made)
RespondWith(ep, req, status, detail, body, cookie, calls) ==
    last' = [n |-> 1 - last.n, ep |-> ep, req |-> req, status |-> status,
             detail |-> detail, body |-> body, cookie |-> cookie, calls |-> calls]

Respond(ep, req, status, detail, body, cookie) ==
    RespondWith(ep, req, status, detail, body, cookie, <<>>)

\* _enforce_auth_rate_limit: the Store call and its effect on the stored buckets
EnforceRateLimit(bucket, ip) ==
    allow_rate_limit(RateKey(bucket, ip), AUTH_RATE_LIMIT_MAX_REQUESTS,
                     AUTH_RATE_LIMIT_WINDOW_SECONDS)

RateLimitEffect(bucket, ip, rl) ==
    /\ rate_limits' = Put(rate_limits, RateKey(bucket, ip), rl.entries)
    /\ admitted' = IF rl.ok
                   THEN Put(admitted, RateKey(bucket, ip),
                            Append(Get(admitted, RateKey(bucket, ip), <<>>), now))
                   ELSE admitted

\* POST /api/auth/nonce
create_nonce_handler(ip, address) ==
    LET rl == EnforceRateLimit(<<"nonce">>, ip)
        req == [ip |-> ip, address |-> address]
        message == build_siwe_message(address, NoncePlaceholder, CHAIN_ID)
    IN /\ RateLimitEffect(<<"nonce">>, ip, rl)
       /\ IF ~rl.ok
          THEN /\ Respond("nonce", req, 429, "Too many auth attempts", EmptyDict, 0)
               /\ UNCHANGED <<nonces, next_id>>
          ELSE IF ~validate_eth_address(address)
          THEN /\ Respond("nonce", req, 400, "Invalid EVM address", EmptyDict, 0)
               /\ UNCHANGED <<nonces, next_id>>
          ELSE /\ next_id.nonce <= MaxNonces
               /\ nonces' = create_nonce(address, message)
               /\ next_id' = [next_id EXCEPT !.nonce = @ + 1]
               /\ Respond("nonce", req, 200, "",
                          [nonce |-> next_id.nonce,
                           message |-> ReplaceNonce(message, next_id.nonce),
                           chain_id |-> CHAIN_ID], 0)
       /\ UNCHANGED <<now, sessions, tp_arms, idempotency_keys, tasks, upstream, consumed>>

\* POST /api/auth/verify.  p is the request body: address, nonce, message, signature
\* and clob_auth_signature; the upstream's answers are chosen where the handler
\* makes the call (wallets: the answers the wallet-metadata service can give).
verify_auth(ip, p, wallets) ==
    LET rl == EnforceRateLimit(<<"verify">>, ip)
        req == [ip |-> ip, address |-> p.address, nonce |-> p.nonce, message |-> p.message,
                signature |-> p.signature, clob_auth_signature |-> p.clob_auth_signature]
        nonce_record == consume_nonce(p.address, p.nonce)
        Reject(detail) == /\ Respond("verify", req, 400, detail, EmptyDict, 0)
                          /\ UNCHANGED <<sessions, next_id>>
    IN /\ RateLimitEffect(<<"verify">>, ip, rl)
       /\ IF ~rl.ok
          THEN /\ Respond("verify", req, 429, "Too many auth attempts", EmptyDict, 0)
               /\ UNCHANGED <<nonces, consumed, sessions, next_id>>
          ELSE IF ~validate_eth_address(p.address)
          THEN /\ Respond("verify", req, 400, "Invalid EVM address", EmptyDict, 0)
               /\ UNCHANGED <<nonces, consumed, sessions, next_id>>
          ELSE
            /\ nonces' = nonce_record.nonces
            /\ consumed' = IF nonce_record.ok
                           THEN [consumed EXCEPT ![p.nonce] = @ + 1] ELSE consumed
            /\ IF ~nonce_record.ok THEN Reject("Nonce is invalid or expired")
               ELSE IF p.message # ReplaceNonce(nonce_record.record.message, p.nonce)
                    THEN Reject("Signed message mismatch")
               ELSE IF recover_personal_signer(p.message, p.signature) = NoSigner
                    THEN Reject("Invalid signature")
               ELSE IF Lower(recover_personal_signer(p.message, p.signature)) # Lower(p.address)
                    THEN Reject("SIWE signature address mismatch")
               ELSE IF ~recover_clob_auth_signer(p.address, p.clob_auth_signature).ok
                    THEN Reject(recover_clob_auth_signer(p.address, p.clob_auth_signature).detail)
               ELSE \E create_status \in HttpStatuses, derive_status \in HttpStatuses,
                       payload \in CredentialPayloads(p.address) :
                    LET clob_creds == derive_clob_api_creds(p.address, create_status,
                                                            derive_status, payload)
                    IN \* the GET is not made: one answer
                       /\ response_ok(create_status) => derive_status = 200
                       /\ IF ~clob_creds.ok
                          THEN /\ RespondWith("verify", req, 400, clob_creds.detail,
                                              clob_creds.codes, 0, clob_creds.calls)
                               /\ UNCHANGED <<sessions, next_id>>
                          ELSE \E wallet \in wallets :
                               LET context == resolve(p.address, wallet)
                                   session == create_session(p.address, clob_creds.creds,
                                                             context)
                               IN /\ next_id.token <= MaxSessions
                                  /\ sessions' = Put(sessions, session.token, session)
                                  /\ next_id' = [next_id EXCEPT !.token = @ + 1]
                                  /\ RespondWith("verify", req, 200, "",
                                                 [ok |-> TRUE,
                                                  eoa_address |-> session.eoa_address,
                                                  trading_context |-> context],
                                                 session.token, clob_creds.calls)
       /\ UNCHANGED <<now, tp_arms, idempotency_keys, tasks, upstream>>

\* _session_from_cookie: [ok, detail, session, sessions]; token 0 is no cookie
session_from_cookie(session_token) ==
    LET got == get_session(session_token)
    IN IF session_token = 0
       THEN [ok |-> FALSE, detail |-> "Not authenticated", session |-> EmptyDict,
             sessions |-> sessions]
       ELSE IF ~got.ok
            THEN [ok |-> FALSE, detail |-> "Invalid or expired session",
                  session |-> EmptyDict, sessions |-> got.sessions]
       ELSE [ok |-> TRUE, detail |-> "", session |-> got.session, sessions |-> got.sessions]

\* GET /api/me
get_me(session_token) ==
    LET auth == session_from_cookie(session_token)
        req == [cookie |-> session_token]
    IN /\ sessions' = auth.sessions
       /\ IF ~auth.ok THEN Respond("me", req, 401, auth.detail, EmptyDict, 0)
          ELSE Respond("me", req, 200, "",
                       [eoa_address |-> auth.session.eoa_address,
                        trading_context |-> auth.session.trading_context], 0)
       /\ UNCHANGED <<now, nonces, rate_limits, tp_arms, idempotency_keys, tasks, next_id,
                      upstream, admitted, consumed>>

\* InMemoryStore.delete_session, as a Store operation of its own
DeleteSession(token) ==
    /\ token \in DOMAIN sessions
    /\ sessions' = delete_session(token)
    /\ UNCHANGED <<now, nonces, rate_limits, tp_arms, idempotency_keys, tasks, next_id,
                   upstream, last, admitted, consumed>>

\* the clock advances (up to the bound of the specification)
Tick(max_time) ==
    /\ now < max_time
    /\ now' = now + 1
    /\ UNCHANGED <<nonces, sessions, rate_limits, tp_arms, idempotency_keys, tasks, next_id,
                   upstream, last, admitted, consumed>>

(***************************************************************************)
(* The authentication handshake: the process after construction, the       *)
(* clients of one address pair sending any nonce, verify and /me requests. *)
(***************************************************************************)
Cookies == 0 .. MaxSessions + 1

NoRequest == [n |-> 0, ep |-> "none", req |-> EmptyDict, status |-> 0, detail |-> "",
              body |-> EmptyDict, cookie |-> 0, calls |-> <<>>]

Init ==
    /\ now = 0
    /\ nonces = EmptyDict
    /\ sessions = EmptyDict
    /\ rate_limits = EmptyDict
    /\ tp_arms = EmptyDict
    /\ idempotency_keys = {}
    /\ tasks = EmptyDict
    /\ next_id = [nonce |-> 1, token |-> 1, arm |-> 1]
    /\ upstream = <<>>
    /\ last = NoRequest
    /\ admitted = EmptyDict
    /\ consumed = [n \in 1 .. MaxNonces + 1 |-> 0]

\* the messages a client can present for an address and a nonce: the text it was
\* given, or the same text with another issue time
ClientMessages(address, nonce) ==
    { [address |-> address, chain_id |-> CHAIN_ID, nonce |-> nonce, issued_at |-> t] :
        t \in 0 .. 1 }

\* the verify requests of the client of address 0xaa (sent as "0xAA"): any nonce, a
\* right or wrong message, SIWE and CLOB-auth signatures by 0xaa or by 0xbb, or
\* malformed ones, and a request whose address is no address
VerifyRequests ==
    UNION { { [address |-> "0xAA", nonce |-> n, message |-> m, signature |-> s,
               clob_auth_signature |-> c] :
                m \in ClientMessages("0xaa", n), s \in {"0xaa", "0xbb"},
                c \in {"0xaa", "0xbb"} } : n \in 1 .. MaxNonces }
    \cup { [address |-> "0xAA", nonce |-> 1, message |-> m, signature |-> sc[1],
            clob_auth_signature |-> sc[2]] :
             m \in ClientMessages("0xaa", 1),
             sc \in {<<NoSigner, "0xaa">>, <<"0xaa", NoSigner>>} }
    \cup { [address |-> NotAnAddress, nonce |-> 1, message |-> m, signature |-> "0xaa",
            clob_auth_signature |-> "0xaa"] : m \in ClientMessages("0xaa", 1) }

Next ==
    \/ Tick(MaxTime)
    \/ \E address \in {"0xaa", "0xAA"} : create_nonce_handler(<<"ip1">>, address)
    \/ \E p \in VerifyRequests : verify_auth(<<"ip1">>, p, {"none", ProxyAddress})

Spec == Init /\ [][Next]_vars

(***************************************************************************)
(* The handshake with every answer of the wallet-metadata service: it is   *)
(* not configured, it raises, its blob holds no address, the address of a  *)
(* proxy wallet, or only the EOA's own address in either spelling.         *)
(***************************************************************************)
NextResolve ==
    \/ Tick(MaxTime)
    \/ \E address \in {"0xaa", "0xAA"} : create_nonce_handler(<<"ip1">>, address)
    \/ \E p \in VerifyRequests : verify_auth(<<"ip1">>, p, WalletAnswers)

SpecResolve == Init /\ [][NextResolve]_vars

(***************************************************************************)
(* Signed orders.  A JSON scalar is [t, v]: t is "int", "str" or "null"    *)
(* and v its text.  A signature is [hex, by, exchange]: its text, the      *)
(* address whose key made it and the exchange variant whose EIP-712        *)
(* domain it was made under (hex "" is no signature).                      *)
(***************************************************************************)
JInt(text) == [t |-> "int", v |-> text]
JStr(text) == [t |-> "str", v |-> text]
JNull == [t |-> "null", v |-> ""]

\* int(x) of a JSON scalar: [ok, n]; int(None) and int("abc") raise
ParseInt(j) ==
    IF j.t = "null" THEN [ok |-> FALSE, n |-> 0]
    ELSE IF j.v = "0" THEN [ok |-> TRUE, n |-> 0]
    ELSE IF j.v = "1" THEN [ok |-> TRUE, n |-> 1]
    ELSE IF j.v = "2" THEN [ok |-> TRUE, n |-> 2]
    ELSE IF j.v = "5" THEN [ok |-> TRUE, n |-> 5]
    ELSE IF j.v = "101" THEN [ok |-> TRUE, n |-> 101]
    ELSE IF j.v = "102" THEN [ok |-> TRUE, n |-> 102]
    ELSE [ok |-> FALSE, n |-> 0]

\* str(x) of a JSON scalar
Str(j) == IF j.t = "null" THEN "None" ELSE j.v

\* str.upper().strip()
Upper(text) == IF text = "sell" THEN "SELL" ELSE IF text = "buy" THEN "BUY" ELSE text

\* main._normalize_side: [ok, side]
normalize_side(raw) ==
    IF raw.t = "str" /\ Upper(raw.v) \in {"BUY", "SELL"} THEN [ok |-> TRUE, side |-> Upper(raw.v)]
    ELSE IF ParseInt(raw).ok
         THEN [ok |-> TRUE, side |-> IF ParseInt(raw).n = 0 THEN "BUY" ELSE "SELL"]
    ELSE [ok |-> FALSE, side |-> ""]

\* _validate_signed_order: [status, detail]; status 200 is "returned"; 500 is an
\* exception that is no HTTPException (int() of a value that is no integer)
validate_signed_order(signed_order, session, token_id, expected_side) ==
    LET context == session.trading_context IN
    IF Lower(signed_order.signer) # Lower(session.eoa_address)
    THEN [status |-> 400, detail |-> "Signed order signer mismatch"]
    ELSE IF Lower(signed_order.maker) # Lower(context.trading_address)
    THEN [status |-> 400, detail |-> "Signed order maker mismatch"]
    ELSE IF ~ParseInt(signed_order.signatureType).ok
    THEN [status |-> 500, detail |-> "Internal Server Error"]
    ELSE IF ParseInt(signed_order.signatureType).n # context.signature_type
    THEN [status |-> 400, detail |-> "signatureType mismatch"]
    ELSE IF Str(signed_order.tokenId) # token_id
    THEN [status |-> 400, detail |-> "tokenId mismatch"]
    ELSE IF ~normalize_side(signed_order.side).ok
    THEN [status |-> 400, detail |-> "Invalid order side"]
    ELSE IF normalize_side(signed_order.side).side # expected_side
    THEN [status |-> 400, detail |-> "Expected side order"]
    ELSE [status |-> 200, detail |-> ""]

\* _order_side_to_uint8: [ok, n]
order_side_to_uint8(value) ==
    IF value.t = "str" /\ Upper(value.v) = "BUY" THEN [ok |-> TRUE, n |-> 0]
    ELSE IF value.t = "str" /\ Upper(value.v) = "SELL" THEN [ok |-> TRUE, n |-> 1]
    ELSE IF ParseInt(value).ok /\ ParseInt(value).n \in {0, 1} THEN ParseInt(value)
    ELSE [ok |-> FALSE, n |-> 0]

\* _recover_order_signer_for_exchange: the recovered address, "" for an exception
\* (which _recover_order_signer_candidates turns into None).  A signature made under
\* the other exchange's domain recovers to an address that is nobody's.
recover_order_signer_for_exchange(signed_order, exchange) ==
    IF \/ ~ParseInt(signed_order.tokenId).ok
       \/ ~ParseInt(signed_order.signatureType).ok
       \/ ~order_side_to_uint8(signed_order.side).ok
       \/ signed_order.signature.hex = ""
    THEN ""
    ELSE IF signed_order.signature.exchange = exchange THEN signed_order.signature.by
    ELSE "0x??"

\* place_limit_order, lines 448-452: whether one of the two recoveries gives the EOA
recovers_session_eoa(signed_order, session) ==
    LET expected_signer == Lower(session.eoa_address)
        rec_regular == Lower(recover_order_signer_for_exchange(signed_order, "regular"))
        rec_neg_risk == Lower(recover_order_signer_for_exchange(signed_order, "neg_risk"))
    IN ~(rec_regular # expected_signer /\ rec_neg_risk # expected_signer)

\* clob_session._normalize_side: whether it returns
clob_normalize_side_ok(value) ==
    \/ value.t = "str" /\ Upper(value.v) \in {"BUY", "SELL"}
    \/ value.t # "str" /\ ParseInt(value).ok /\ ParseInt(value).n \in {0, 1}
    \/ value.t = "str" /\ ParseInt(value).ok /\ ParseInt(value).n \in {0, 1}

\* _normalize_signed_order_payload: whether it returns (it raises ValueError or
\* TypeError otherwise, and nothing is sent upstream)
normalize_signed_order_payload_ok(signed_order) ==
    /\ signed_order.signature.hex # ""
    /\ validate_eth_address(signed_order.maker)
    /\ validate_eth_address(signed_order.signer)
    /\ ParseInt(signed_order.tokenId).ok
    /\ clob_normalize_side_ok(signed_order.side)
    /\ ParseInt(signed_order.signatureType).ok

\* Level2SessionClobClient.post_signed_order, with the CLOB's answer ("ok", or
\* "error" for a PolyApiException): the record of the call
post_signed_order(via, creds, arm_id, level, signed_order, answer) ==
    [via |-> via, creds |-> creds, arm_id |-> arm_id, level |-> level,
     signed_order |-> signed_order,
     sent |-> normalize_signed_order_payload_ok(signed_order),
     ok |-> normalize_signed_order_payload_ok(signed_order) /\ answer = "ok"]

(***************************************************************************)
(* Store: idempotency set and TP arms                                      *)
(***************************************************************************)
\* InMemoryStore.mark_idempotent: [ok, keys]
mark_idempotent_always_new(key) == [ok |-> TRUE, keys |-> idempotency_keys \cup {key}]
mark_idempotent(key) ==
    IF key \in idempotency_keys THEN [ok |-> FALSE, keys |-> idempotency_keys]
    ELSE [ok |-> TRUE, keys |-> idempotency_keys \cup {key}]

\* InMemoryStore.save_tp_arm
save_tp_arm(state) == Put(tp_arms, state.arm_id, state)

\* InMemoryStore.update_tp_arm: arm.update(patch), for the keys the monitor patches
update_tp_arm_status_lost(arms, arm_id, status) == arms
update_tp_arm_status(arms, arm_id, status) ==
    IF arm_id \notin DOMAIN arms THEN arms
    ELSE [arms EXCEPT ![arm_id].status = status]

update_tp_arm_filled(arms, arm_id, filled_tokens) ==
    IF arm_id \notin DOMAIN arms THEN arms
    ELSE [arms EXCEPT ![arm_id].last_filled_tokens = filled_tokens]

update_tp_arm_placed(arms, arm_id, placed_levels, status) ==
    IF arm_id \notin DOMAIN arms THEN arms
    ELSE [arms EXCEPT ![arm_id].placed_levels = placed_levels, ![arm_id].status = status]

\* InMemoryStore.append_tp_event
append_tp_event(arms, arm_id, event) ==
    IF arm_id \notin DOMAIN arms THEN arms
    ELSE [arms EXCEPT ![arm_id].events = Append(@, event)]

\* the arm ids in the order the arms were saved (dict order)
ArmIds == <<"tp_1", "tp_2", "tp_3", "tp_4">>

RECURSIVE ArmsWhere(_, _)
\* [dict(arm) for arm in self._tp_arms.values() if ...], over the first n arm ids
ArmsWhere(n, target) ==
    IF n = 0 THEN <<>>
    ELSE ArmsWhere(n - 1, target) \o
         (IF ArmIds[n] \in DOMAIN tp_arms /\ Lower(tp_arms[ArmIds[n]].eoa_address) = target
          THEN <<tp_arms[ArmIds[n]]>> ELSE <<>>)

\* InMemoryStore.get_tp_arms_for_user
get_tp_arms_for_user(eoa_address) == ArmsWhere(Len(ArmIds), Lower(eoa_address))

(***************************************************************************)
(* Trading endpoints (backend/main.py).  Numbers of tokens are in          *)
(* thousandths, size_pct in tenths of a percent.                           *)
(***************************************************************************)
MaxArms == 2

RECURSIVE FirstInvalid(_, _, _, _)
\* arm_tp, lines 536-542: the outcome of the first signed TP order, from item i on,
\* that _validate_signed_order refuses ([status |-> 200] if it refuses none)
FirstInvalid(items, i, session, token_id) ==
    IF i > Len(items) THEN [status |-> 200, detail |-> ""]
    ELSE LET v == validate_signed_order(items[i].signed_order, session, token_id, "SELL")
         IN IF v.status # 200 THEN v ELSE FirstInvalid(items, i + 1, session, token_id)

\* LimitOrderRequest.idempotency_key: Optional[str], absent (None) or a string
NoKey == [given |-> FALSE, text |-> <<>>]
Key(text) == [given |-> TRUE, text |-> text]

\* the truth value of payload.idempotency_key: None and "" are false
Truthy(key) == key.given /\ key.text # <<>>

\* POST /api/order/limit; answer is what the CLOB does with the posted order
place_limit_order(session_token, payload, answer) ==
    LET auth == session_from_cookie(session_token)
        req == [cookie |-> session_token]
        marked == mark_idempotent(payload.idempotency_key.text)
        v == validate_signed_order(payload.signed_order, auth.session, payload.token_id,
                                   payload.side)
        call == post_signed_order("limit", auth.session.eoa_address, "", 0,
                                  payload.signed_order, answer)
    IN /\ sessions' = auth.sessions
       /\ UNCHANGED <<now, nonces, rate_limits, tp_arms, tasks, next_id, upstream, admitted,
                      consumed>>
       /\ IF ~auth.ok
          THEN /\ Respond("limit", req, 401, auth.detail, EmptyDict, 0)
               /\ UNCHANGED idempotency_keys
          ELSE IF Truthy(payload.idempotency_key) /\ ~marked.ok
          THEN /\ Respond("limit", req, 200, "",
                          [status |-> "duplicate", detail |-> "idempotency_key already used"], 0)
               /\ UNCHANGED idempotency_keys
          ELSE /\ idempotency_keys' = IF Truthy(payload.idempotency_key) THEN marked.keys
                                      ELSE idempotency_keys
               /\ IF v.status # 200
                  THEN Respond("limit", req, v.status, v.detail, EmptyDict, 0)
                  ELSE IF ~recovers_session_eoa(payload.signed_order, auth.session)
                  THEN Respond("limit", req, 400, "Order signature does not recover",
                               EmptyDict, 0)
                  ELSE IF ~call.sent
                  THEN RespondWith("limit", req, 400, "Failed to post order", EmptyDict, 0,
                                   <<call>>)
                  ELSE IF ~call.ok
                  THEN RespondWith("limit", req, 400, "PolyApiException", EmptyDict, 0,
                                   <<call>>)
                  ELSE RespondWith("limit", req, 200, "",
                                   [status |-> "success", order_id |-> "order",
                                    entry_size_tokens |-> payload.size_tokens,
                                    raw |-> "response"], 0, <<call>>)

RECURSIVE by_level(_, _)
\* TpEngine.arm, lines 121-127: the signed orders by level index, a later item of the
\* same level replacing an earlier one (the first n items)
by_level(items, n) ==
    IF n = 0 THEN EmptyDict
    ELSE Put(by_level(items, n - 1), items[n].level_index,
             [order_type |-> "GTC", signed_order |-> items[n].signed_order])

MINUTE == 2
TP_POLL_SECONDS == 1

\* TpEngine.arm, lines 129-148: the state of a new arm
ArmState(arm_id, session, payload) ==
    [arm_id |-> arm_id, eoa_address |-> session.eoa_address, created_at |-> now,
     entry_order_id |-> payload.entry_order_id, token_id |-> payload.token_id,
     entry_size_tokens |-> payload.entry_size_tokens, mode |-> payload.mode,
     levels |-> payload.levels,
     signed_tp_orders |-> by_level(payload.signed_tp_orders, Len(payload.signed_tp_orders)),
     placed_levels |-> EmptyDict, status |-> "armed", last_filled_tokens |-> 0,
     poll_seconds |-> TP_POLL_SECONDS, max_minutes |-> payload.max_minutes,
     events |-> <<>>, clob_creds |-> session.clob_creds,
     trading_context |-> session.trading_context]

\* a monitor coroutine is inside an iteration: it holds the event loop until it
\* reaches its await (asyncio.sleep) or returns
Running(arm_id) == tasks[arm_id].pc \in {"poll", "levels", "finish"}

\* the event loop can run something other than the coroutines it is inside of
EventLoopFree(arm_id) == \A other \in DOMAIN tasks \ {arm_id} : ~Running(other)

\* sum(level.size_pct for level in levels), in tenths of a percent
RECURSIVE SumPct(_)
SumPct(levels) == IF levels = <<>> THEN 0 ELSE Head(levels).size_pct + SumPct(Tail(levels))

\* the float additions of 33.4 + 33.4 + 33.4 and of 40.1 + 30.0 + 30.1 give
\* 100.19999999999999; the other lists of levels used here that add up to 99.8 or
\* to 100.2 give the double 99.8 or 100.2, whose distance from 100.0 is
\* 0.20000000000000284
FloatSumBelowExact(levels) ==
    levels \in { <<[price |-> 500, size_pct |-> 334], [price |-> 500, size_pct |-> 334],
                   [price |-> 500, size_pct |-> 334]>>,
                 <<[price |-> 500, size_pct |-> 401], [price |-> 500, size_pct |-> 300],
                   [price |-> 500, size_pct |-> 301]>> }

\* TpArmRequest.validate_levels_sum, lines 104-110: abs(total - 100.0) > 0.2 raises
validate_levels_sum_any(levels) == TRUE
validate_levels_sum(levels) ==
    LET total == SumPct(levels)
        distance == IF total >= 1000 THEN total - 1000 ELSE 1000 - total
    IN IF distance = 2 THEN FloatSumBelowExact(levels) ELSE distance < 2

\* TpLevel, lines 84-86: 0 < price < 1 and 0 < size_pct <= 100
TpLevelValid(level) ==
    /\ level.price > 0 /\ level.price < 1000
    /\ level.size_pct > 0 /\ level.size_pct <= 1000

\* TpArmRequest, lines 95-110, for the fields that vary here: FastAPI answers 422 to a
\* body that fails it, after the session dependency and before the handler
TpArmRequestValid(payload) ==
    /\ payload.entry_size_tokens > 0
    /\ payload.mode \in {"single", "ladder"}
    /\ Len(payload.levels) >= 1 /\ Len(payload.levels) <= 3
    /\ \A k \in 1 .. Len(payload.levels) : TpLevelValid(payload.levels[k])
    /\ Len(payload.signed_tp_orders) >= 1 /\ Len(payload.signed_tp_orders) <= 3
    /\ \A k \in 1 .. Len(payload.signed_tp_orders) :
           /\ payload.signed_tp_orders[k].level_index >= 0
           /\ payload.signed_tp_orders[k].level_index <= 9
    /\ payload.max_minutes >= 1 /\ payload.max_minutes <= 180
    /\ validate_levels_sum(payload.levels)

\* POST /api/tp/arm (a coroutine of the event loop) with TpEngine.arm
arm_tp(session_token, payload, max_arms) ==
    LET auth == session_from_cookie(session_token)
        req == [cookie |-> session_token]
        v == FirstInvalid(payload.signed_tp_orders, 1, auth.session, payload.token_id)
        arm_id == ArmIds[next_id.arm]
        state == ArmState(arm_id, auth.session, payload)
    IN /\ EventLoopFree("")
       /\ sessions' = auth.sessions
       /\ UNCHANGED <<now, nonces, rate_limits, idempotency_keys, upstream, admitted,
                      consumed>>
       /\ IF ~auth.ok
          THEN /\ Respond("tp_arm", req, 401, auth.detail, EmptyDict, 0)
               /\ UNCHANGED <<tp_arms, tasks, next_id>>
          ELSE IF ~TpArmRequestValid(payload)
          THEN /\ Respond("tp_arm", req, 422, "Unprocessable Entity", EmptyDict, 0)
               /\ UNCHANGED <<tp_arms, tasks, next_id>>
          ELSE IF v.status # 200
          THEN /\ Respond("tp_arm", req, v.status, v.detail, EmptyDict, 0)
               /\ UNCHANGED <<tp_arms, tasks, next_id>>
          ELSE /\ next_id.arm <= max_arms
               /\ tp_arms' = save_tp_arm(state)
               /\ tasks' = Put(tasks, arm_id,
                               [pc |-> "start", wake_at |-> now, deadline |-> 0, arm |-> state,
                                placed_levels |-> EmptyDict, idx |-> 0, filled_tokens |-> 0])
               /\ next_id' = [next_id EXCEPT !.arm = @ + 1]
               /\ Respond("tp_arm", req, 200, "",
                          [status |-> "armed", arm_id |-> arm_id,
                           entry_order_id |-> payload.entry_order_id], 0)

\* TpEngine.get_status (arm_id "" is None)
get_status_any_owner(eoa_address, arm_id) ==
    IF arm_id # ""
    THEN IF arm_id \notin DOMAIN tp_arms THEN <<>> ELSE <<tp_arms[arm_id]>>
    ELSE get_tp_arms_for_user(eoa_address)
get_status(eoa_address, arm_id) ==
    IF arm_id # ""
    THEN IF arm_id \notin DOMAIN tp_arms THEN <<>>
         ELSE IF Lower(tp_arms[arm_id].eoa_address) # Lower(eoa_address) THEN <<>>
         ELSE <<tp_arms[arm_id]>>
    ELSE get_tp_arms_for_user(eoa_address)

\* GET /api/tp/status
get_tp_status(session_token, arm_id) ==
    LET auth == session_from_cookie(session_token)
        req == [cookie |-> session_token]
    IN /\ sessions' = auth.sessions
       /\ IF ~auth.ok THEN Respond("tp_status", req, 401, auth.detail, EmptyDict, 0)
          ELSE Respond("tp_status", req, 200, "",
                       [arms |-> get_status(auth.session.eoa_address, arm_id)], 0)
       /\ UNCHANGED <<now, nonces, rate_limits, tp_arms, idempotency_keys, tasks, next_id,
                      upstream, admitted, consumed>>

(***************************************************************************)
(* TP engine (backend/tp_engine.py): the monitor coroutine of an arm.      *)
(* tasks[arm_id] holds its position (pc) and its local variables.          *)
(***************************************************************************)
Min(a, b) == IF a < b THEN a ELSE b
Max(a, b) == IF a > b THEN a ELSE b

\* "filled" in status_text and "partial" not in status_text, for the statuses the
\* exchange is modelled to answer with ("" is no status field)
StatusSaysFilled(status_text) == status_text \in {"filled", "unfilled"}

RECURSIVE FirstPct(_, _, _)
\* extract_filled_tokens, lines 76-80: the first usable percentage, from value i on;
\* -1 if there is none (pct in thousandths: 1000 is 1.0)
FirstPct(pct_values, i, entry_size_tokens) ==
    IF i > Len(pct_values) THEN -1
    ELSE IF 0 <= pct_values[i] /\ pct_values[i] <= 1000
         THEN Max(0, Min(entry_size_tokens, (pct_values[i] * entry_size_tokens) \div 1000))
    ELSE IF 1000 < pct_values[i] /\ pct_values[i] <= 100000
         THEN Max(0, Min(entry_size_tokens, (pct_values[i] * entry_size_tokens) \div 100000))
    ELSE FirstPct(pct_values, i + 1, entry_size_tokens)

RECURSIVE Best(_, _, _)
\* extract_filled_tokens, lines 101-107: the largest amount among the first n values
Best(amount_values, n, entry_size_tokens) ==
    IF n = 0 THEN 0
    ELSE LET value == amount_values[n]
             val == IF value > entry_size_tokens * 1000 THEN value \div 1000000 ELSE value
         IN Max(Best(amount_values, n - 1, entry_size_tokens), val)

\* extract_filled_tokens; order_payload is [status, pct_values, amount_values]
extract_filled_tokens(order_payload, entry_size_tokens) ==
    IF StatusSaysFilled(order_payload.status) THEN entry_size_tokens
    ELSE IF FirstPct(order_payload.pct_values, 1, entry_size_tokens) # -1
         THEN FirstPct(order_payload.pct_values, 1, entry_size_tokens)
    ELSE Max(0, Min(entry_size_tokens,
                    Best(order_payload.amount_values, Len(order_payload.amount_values),
                         entry_size_tokens)))

\* str(idx)
IdxStr(idx) == IF idx = 0 THEN "0" ELSE IF idx = 1 THEN "1" ELSE IF idx = 2 THEN "2" ELSE "9"

RECURSIVE Cumulative(_, _)
\* cumulative after the first n levels, in tenths of a percent
Cumulative(levels, n) == IF n = 0 THEN 0 ELSE Cumulative(levels, n - 1) + levels[n].size_pct

\* fill_ratio + 1e-9 < cumulative, with fill_ratio = max(0, min(1, filled / entry))
BelowThreshold_never(filled_tokens, entry_size_tokens, cumulative) == FALSE
BelowThreshold_at_threshold(filled_tokens, entry_size_tokens, cumulative) ==
    IF entry_size_tokens > 0
    THEN Max(0, Min(entry_size_tokens, filled_tokens)) * 1000 <= cumulative * entry_size_tokens
    ELSE 0 <= cumulative
BelowThreshold(filled_tokens, entry_size_tokens, cumulative) ==
    IF entry_size_tokens > 0
    THEN Max(0, Min(entry_size_tokens, filled_tokens)) * 1000 < cumulative * entry_size_tokens
    ELSE 0 < cumulative

\* f"{arm_id}:{idx}:{sig}"
IdemKey(arm_id, idx, sig) == <<arm_id, ":", IdxStr(idx), ":", sig>>

\* line 215: placed_levels = dict(arm.get("placed_levels") or {})
placed_levels_fresh(arm) == EmptyDict
placed_levels_copy(arm) == arm.placed_levels

\* the list behind arm["events"]: TpEngine.arm makes one per arm and the Store only
\* appends to it in place (append_tp_event), so every holder of it sees what the
\* Store holds
EventsOf(arm_id) == [list |-> "events", arm_id |-> arm_id]

\* InMemoryStore.get_tp_arm: dict(arm) copies the top level of the arm; the maps and
\* lists embedded in it are the Store's own.  Of these only the events list is ever
\* changed in place (placed_levels is replaced as a whole by update_tp_arm), so it is
\* the one kept by reference here
get_tp_arm(arm_id) == [tp_arms[arm_id] EXCEPT !.events = EventsOf(arm_id)]

\* what the holder of an arm handed out by get_tp_arm reads from it
Deref(arm) == [arm EXCEPT !.events = tp_arms[arm.arm_id].events]

\* the monitor's steps leave everything but the arms, the keys, the tasks and the calls
MonitorFrame == UNCHANGED <<now, nonces, sessions, rate_limits, next_id, last, admitted,
                            consumed>>

\* lines 163-169: the client of the monitor, Level2SessionClobClient(eoa_address=
\* arm["eoa_address"], creds=arm["clob_creds"], ...): the credentials it signs with
\* (named by their owner) are those kept in the arm
monitor_client_of_session(arm) ==
    IF \E token \in DOMAIN sessions : sessions[token].eoa_address = arm.eoa_address
    THEN arm.eoa_address ELSE ""
monitor_client(arm) == arm.eoa_address

\* lines 159-172: the coroutine starts
MonitorStart(arm_id) ==
    /\ arm_id \in DOMAIN tasks
    /\ tasks[arm_id].pc = "start"
    /\ EventLoopFree(arm_id)
    /\ tasks' = [tasks EXCEPT ![arm_id].pc = "loop",
                              ![arm_id].arm = get_tp_arm(arm_id),
                              ![arm_id].deadline = tp_arms[arm_id].created_at
                                                   + tp_arms[arm_id].max_minutes * MINUTE]
    /\ UNCHANGED <<tp_arms, idempotency_keys, upstream>>
    /\ MonitorFrame

\* lines 175-194: the top of an iteration, after the sleep of the one before
MonitorLoop_no_deadline(arm_id) ==
    /\ arm_id \in DOMAIN tasks
    /\ tasks[arm_id].pc = "loop"
    /\ now >= tasks[arm_id].wake_at
    /\ EventLoopFree(arm_id)
    /\ IF tp_arms[arm_id].status \in {"completed", "cancelled", "error", "timeout"}
       THEN /\ tasks' = [tasks EXCEPT ![arm_id].pc = "done", ![arm_id].arm = get_tp_arm(arm_id)]
            /\ UNCHANGED tp_arms
       ELSE /\ tasks' = [tasks EXCEPT ![arm_id].pc = "poll", ![arm_id].arm = get_tp_arm(arm_id)]
            /\ UNCHANGED tp_arms
    /\ UNCHANGED <<idempotency_keys, upstream>>
    /\ MonitorFrame
MonitorLoop(arm_id) ==
    /\ arm_id \in DOMAIN tasks
    /\ tasks[arm_id].pc = "loop"
    /\ now >= tasks[arm_id].wake_at
    /\ EventLoopFree(arm_id)
    /\ IF now >= tasks[arm_id].deadline
       THEN /\ tp_arms' = append_tp_event(update_tp_arm_status(tp_arms, arm_id, "timeout"),
                                          arm_id, [event |-> "timeout", level |-> -1])
            /\ tasks' = [tasks EXCEPT ![arm_id].pc = "done"]
       ELSE IF tp_arms[arm_id].status \in {"completed", "cancelled", "error", "timeout"}
       THEN /\ tasks' = [tasks EXCEPT ![arm_id].pc = "done", ![arm_id].arm = get_tp_arm(arm_id)]
            /\ UNCHANGED tp_arms
       ELSE /\ tasks' = [tasks EXCEPT ![arm_id].pc = "poll", ![arm_id].arm = get_tp_arm(arm_id)]
            /\ UNCHANGED tp_arms
    /\ UNCHANGED <<idempotency_keys, upstream>>
    /\ MonitorFrame

\* the except clause, lines 277-283: a poll_error event, then the sleep
PollError(arm_id) ==
    /\ tp_arms' = append_tp_event(tp_arms, arm_id, [event |-> "poll_error", level |-> -1])
    /\ tasks' = [tasks EXCEPT ![arm_id].pc = "loop",
                              ![arm_id].wake_at = now + tasks[arm_id].arm.poll_seconds]

\* lines 197-215: get_order answers with an order payload, or raises (answer "raises")
MonitorPoll(arm_id, answer) ==
    /\ arm_id \in DOMAIN tasks
    /\ tasks[arm_id].pc = "poll"
    /\ IF answer.raises
       THEN PollError(arm_id)
       ELSE LET arm == tasks[arm_id].arm
                filled_tokens == extract_filled_tokens(answer.order, arm.entry_size_tokens)
            IN /\ tp_arms' = update_tp_arm_filled(tp_arms, arm_id, filled_tokens)
               /\ tasks' = [tasks EXCEPT ![arm_id].pc = "levels",
                                         ![arm_id].filled_tokens = filled_tokens,
                                         ![arm_id].placed_levels = placed_levels_copy(arm),
                                         ![arm_id].idx = 0]
    /\ UNCHANGED <<idempotency_keys, upstream>>
    /\ MonitorFrame

\* where the for loop goes after level idx
AfterLevel_break(task) == [task EXCEPT !.pc = "finish"]
AfterLevel(task) ==
    IF task.idx + 1 < Len(task.arm.levels) THEN [task EXCEPT !.idx = @ + 1]
    ELSE [task EXCEPT !.pc = "finish"]

\* lines 217-260: one pass of the for loop, for level idx; answer is what the CLOB
\* does with the order if it is posted
MonitorLevel(arm_id, answer) ==
    /\ arm_id \in DOMAIN tasks
    /\ tasks[arm_id].pc = "levels"
    /\ LET task == tasks[arm_id]
           arm == task.arm
           idx == task.idx
           cumulative == Cumulative(arm.levels, idx + 1)
           signed_cfg == arm.signed_tp_orders[idx]
           idem == IdemKey(arm_id, idx, signed_cfg.signed_order.signature.hex)
           marked == mark_idempotent(idem)
           call == post_signed_order("tp", monitor_client(arm), arm_id, idx,
                                     signed_cfg.signed_order, answer)
       IN IF BelowThreshold(task.filled_tokens, arm.entry_size_tokens, cumulative)
          THEN /\ tasks' = [tasks EXCEPT ![arm_id] = AfterLevel(task)]
               /\ UNCHANGED <<tp_arms, idempotency_keys, upstream>>
          ELSE IF IdxStr(idx) \in DOMAIN task.placed_levels
          THEN /\ tasks' = [tasks EXCEPT ![arm_id] = AfterLevel(task)]
               /\ UNCHANGED <<tp_arms, idempotency_keys, upstream>>
          ELSE IF idx \notin DOMAIN arm.signed_tp_orders
          THEN /\ tasks' = [tasks EXCEPT ![arm_id] = AfterLevel(
                               [task EXCEPT !.placed_levels =
                                   Put(@, IdxStr(idx), [status |-> "error", level |-> idx])])]
               /\ UNCHANGED <<tp_arms, idempotency_keys, upstream>>
          ELSE IF ~marked.ok
          THEN /\ tasks' = [tasks EXCEPT ![arm_id] = AfterLevel(task)]
               /\ UNCHANGED <<tp_arms, idempotency_keys, upstream>>
          ELSE /\ idempotency_keys' = marked.keys
               /\ upstream' = Append(upstream, call)
               /\ IF ~call.ok
                  THEN PollError(arm_id)
                  ELSE /\ tp_arms' = append_tp_event(tp_arms, arm_id,
                                                     [event |-> "tp_placed", level |-> idx])
                       /\ tasks' = [tasks EXCEPT ![arm_id] = AfterLevel(
                                       [task EXCEPT !.placed_levels =
                                           Put(@, IdxStr(idx),
                                               [status |-> "placed", level |-> idx])])]
    /\ MonitorFrame

\* lines 262-283: the end of an iteration that did not raise
MonitorFinish_no_break(arm_id) ==
    /\ arm_id \in DOMAIN tasks
    /\ tasks[arm_id].pc = "finish"
    /\ LET task == tasks[arm_id]
           done == /\ Cardinality(DOMAIN task.placed_levels) >= Len(task.arm.levels)
                   /\ Len(task.arm.levels) > 0
       IN /\ tp_arms' = update_tp_arm_placed(tp_arms, arm_id, task.placed_levels,
                                             IF done THEN "completed" ELSE "armed")
          /\ tasks' = [tasks EXCEPT ![arm_id].pc = "loop",
                                    ![arm_id].wake_at = now + task.arm.poll_seconds]
    /\ UNCHANGED <<idempotency_keys, upstream>>
    /\ MonitorFrame
MonitorFinish(arm_id) ==
    /\ arm_id \in DOMAIN tasks
    /\ tasks[arm_id].pc = "finish"
    /\ LET task == tasks[arm_id]
           done == /\ Cardinality(DOMAIN task.placed_levels) >= Len(task.arm.levels)
                   /\ Len(task.arm.levels) > 0
       IN /\ tp_arms' = update_tp_arm_placed(tp_arms, arm_id, task.placed_levels,
                                             IF done THEN "completed" ELSE "armed")
          /\ tasks' = [tasks EXCEPT ![arm_id].pc = IF done THEN "done" ELSE "loop",
                                    ![arm_id].wake_at = now + task.arm.poll_seconds]
    /\ UNCHANGED <<idempotency_keys, upstream>>
    /\ MonitorFrame

(***************************************************************************)
(* Trading: two users are logged in (the state two handshakes at time 0    *)
(* leave), one trading from her EOA and one through a proxy wallet; the    *)
(* clients send any order, arm, status and /me requests, sessions are      *)
(* deleted or expire, and the monitors of the arms run.                    *)
(***************************************************************************)
MaxTimeTrade == 2

\* the session a handshake of address at time 0 leaves under token
LoggedIn(token, address, wallet) ==
    SessionRecord(token, address,
                  derive_clob_api_creds(address, 200, 200,
                      [apiKey |-> <<"key", address>>, secret |-> <<"secret", address>>,
                       passphrase |-> <<"passphrase", address>>]).creds,
                  resolve(address, wallet), 0)

InitTrade ==
    /\ now = 0
    /\ nonces = EmptyDict
    /\ sessions = (1 :> LoggedIn(1, "0xAA", "none")) @@ (2 :> LoggedIn(2, "0xbb", ProxyAddress))
    /\ rate_limits = EmptyDict
    /\ tp_arms = EmptyDict
    /\ idempotency_keys = {}
    /\ tasks = EmptyDict
    /\ next_id = [nonce |-> 1, token |-> 3, arm |-> 1]
    /\ upstream = <<>>
    /\ last = NoRequest
    /\ admitted = EmptyDict
    /\ consumed = [n \in 1 .. MaxNonces + 1 |-> 0]

\* cookies: none, the two sessions, a token the store never issued
TradeCookies == 0 .. 3

\* a signature: made with the key of address by, under the domain of exchange
Signature(hex, by, exchange) == [hex |-> hex, by |-> by, exchange |-> exchange]

\* the order the first user's wallet signs for token 101
GoodOrder(side, hex) ==
    [signer |-> "0xaa", maker |-> "0xaa", signatureType |-> JInt("0"),
     tokenId |-> JStr("101"), side |-> JStr(side),
     signature |-> Signature(hex, "0xaa", "regular")]

\* orders that differ from a good one in one field the gateway checks
RefusedVariants(order) ==
    { [order EXCEPT !.signer = "0xbb"], [order EXCEPT !.maker = ProxyAddress],
      [order EXCEPT !.signatureType = JInt("2")], [order EXCEPT !.signatureType = JNull],
      [order EXCEPT !.tokenId = JStr("102")],
      [order EXCEPT !.side = JStr(IF order.side.v = "BUY" THEN "sell" ELSE "buy")],
      [order EXCEPT !.side = JStr("x")] }

\* orders that write a field of a good one in another way
RewrittenVariants(order) ==
    { [order EXCEPT !.signatureType = JStr("0")], [order EXCEPT !.tokenId = JInt("101")],
      [order EXCEPT !.side = JInt("5")] }

SignatureVariants(order) ==
    { [order EXCEPT !.signature = Signature(order.signature.hex, "0xaa", "neg_risk")],
      [order EXCEPT !.signature = Signature(order.signature.hex, "0xbb", "regular")],
      [order EXCEPT !.signature = Signature("", NoSigner, "")] }

LimitPayload(order, key) ==
    [token_id |-> "101", side |-> "BUY", idempotency_key |-> key, signed_order |-> order,
     size_tokens |-> 10000]

\* <<cookie, payload, answer of the CLOB>>
LimitRequests ==
    { <<c, LimitPayload(GoodOrder("BUY", "s0"), NoKey), "ok">> : c \in TradeCookies }
    \cup { <<1, LimitPayload(GoodOrder("BUY", "s0"), k), a>> :
              k \in {NoKey, Key(<<>>), Key(<<"k1">>)}, a \in {"ok", "error"} }
    \cup { <<1, LimitPayload(o, NoKey), "ok">> :
              o \in RefusedVariants(GoodOrder("BUY", "s0"))
                    \cup RewrittenVariants(GoodOrder("BUY", "s0"))
                    \cup SignatureVariants(GoodOrder("BUY", "s0")) }
    \cup { <<0, LimitPayload(GoodOrder("BUY", "s0"), Key(<<"k2">>)), "ok">> }

Level(size_pct) == [price |-> 500, size_pct |-> size_pct]

ArmPayload(levels, items) ==
    [entry_order_id |-> "entry", token_id |-> "101", entry_size_tokens |-> 10000,
     mode |-> "ladder", levels |-> levels, signed_tp_orders |-> items, max_minutes |-> 1]

Item(level_index, order) == [level_index |-> level_index, signed_order |-> order]

\* <<cookie, payload>>
ArmRequests ==
    { <<c, ArmPayload(<<Level(1000)>>, <<Item(0, GoodOrder("SELL", "s1"))>>)>> :
          c \in TradeCookies }
    \cup { <<1, ArmPayload(<<Level(500), Level(500)>>,
                           <<Item(0, GoodOrder("SELL", "s1")), Item(1, o)>>)>> :
              o \in {GoodOrder("SELL", "s2"),
                     [GoodOrder("SELL", "s2") EXCEPT
                          !.signature = Signature("s2", "0xbb", "regular")]}
                    \cup RefusedVariants(GoodOrder("SELL", "s2")) }

\* what get_order can answer
Raises == [raises |-> TRUE, order |-> EmptyDict]
Order(status, pct_values, amount_values) ==
    [raises |-> FALSE,
     order |-> [status |-> status, pct_values |-> pct_values, amount_values |-> amount_values]]

NextTrade ==
    \/ Tick(MaxTimeTrade)
    \/ \E r \in LimitRequests : place_limit_order(r[1], r[2], r[3])
    \/ \E r \in ArmRequests : arm_tp(r[1], r[2], 1)
    \/ \E c \in TradeCookies, arm_id \in {"", "tp_1"} : get_tp_status(c, arm_id)
    \/ \E c \in TradeCookies : get_me(c)
    \/ \E token \in {1} : DeleteSession(token)
    \/ \E arm_id \in DOMAIN tasks : MonitorStart(arm_id)
    \/ \E arm_id \in DOMAIN tasks : MonitorLoop(arm_id)
    \/ \E arm_id \in DOMAIN tasks : MonitorPoll(arm_id, Order("filled", <<>>, <<>>))
    \/ \E arm_id \in DOMAIN tasks : MonitorLevel(arm_id, "ok")
    \/ \E arm_id \in DOMAIN tasks : MonitorFinish(arm_id)

SpecTrade == InitTrade /\ [][NextTrade]_vars

(***************************************************************************)
(* The monitors: the first user arms take-profit ladders (complete ones,   *)
(* one without a signed order for its second level, one whose second       *)
(* order carries somebody else's signature, one whose second order has a   *)
(* side the CLOB client refuses), and the monitors poll an entry order     *)
(* that fills, or fails to answer, in any way.                             *)
(***************************************************************************)
SingleArmRequest == ArmPayload(<<Level(1000)>>, <<Item(0, GoodOrder("SELL", "s1"))>>)

MonitorArmRequests ==
    { SingleArmRequest,
      ArmPayload(<<Level(500), Level(500)>>, <<Item(0, GoodOrder("SELL", "s1"))>>) }
    \cup { ArmPayload(<<Level(500), Level(500)>>,
                      <<Item(0, GoodOrder("SELL", "s1")), Item(1, o)>>) :
              o \in { GoodOrder("SELL", "s2"),
                      [GoodOrder("SELL", "s2") EXCEPT
                          !.signature = Signature("s2", "0xbb", "regular")],
                      [GoodOrder("SELL", "s2") EXCEPT !.side = JInt("5")] } }

PollAnswers ==
    { Raises, Order("partially_filled", <<>>, <<5000>>), Order("filled", <<>>, <<>>) }

NextMonitor ==
    \/ Tick(MaxTimeTrade)
    \/ \E payload \in IF next_id.arm = 1 THEN MonitorArmRequests ELSE {SingleArmRequest} :
          arm_tp(1, payload, MaxArms)
    \/ \E arm_id \in DOMAIN tasks : MonitorStart(arm_id)
    \/ \E arm_id \in DOMAIN tasks : MonitorLoop(arm_id)
    \/ \E arm_id \in DOMAIN tasks, answer \in PollAnswers : MonitorPoll(arm_id, answer)
    \/ \E arm_id \in DOMAIN tasks, answer \in {"ok", "error"} : MonitorLevel(arm_id, answer)
    \/ \E arm_id \in DOMAIN tasks : MonitorFinish(arm_id)

SpecMonitor == InitTrade /\ [][NextMonitor]_vars

(***************************************************************************)
(* Ladder: one arm of 100 tokens with levels of 50, 30 and 20 percent and  *)
(* a signed order for each; the entry order fills step by step, every poll *)
(* reporting the next filled_size, and the CLOB accepts every TP order.    *)
(***************************************************************************)
MaxTimeLadder == 4

LadderMinutes == 3

LadderArmRequest ==
    [ArmPayload(<<Level(500), Level(300), Level(200)>>,
                <<Item(0, GoodOrder("SELL", "s1")), Item(1, GoodOrder("SELL", "s2")),
                  Item(2, GoodOrder("SELL", "s3"))>>)
        EXCEPT !.entry_size_tokens = 100000, !.max_minutes = LadderMinutes]

\* the filled_size of the sequence 40, 55, 85, 105 that get_order reports after the
\* fill the monitor recorded last
LadderFill(last_filled_tokens) ==
    IF last_filled_tokens = 0 THEN 40000
    ELSE IF last_filled_tokens = 40000 THEN 55000
    ELSE IF last_filled_tokens = 55000 THEN 85000
    ELSE 105000

NextLadder ==
    \/ Tick(MaxTimeLadder)
    \/ arm_tp(1, LadderArmRequest, 1)
    \/ \E arm_id \in DOMAIN tp_arms : get_tp_status(1, arm_id)
    \/ \E arm_id \in DOMAIN tasks : MonitorStart(arm_id)
    \/ \E arm_id \in DOMAIN tasks : MonitorLoop(arm_id)
    \/ \E arm_id \in DOMAIN tasks :
          MonitorPoll(arm_id, Order("live", <<>>,
                                    <<LadderFill(tp_arms[arm_id].last_filled_tokens)>>))
    \/ \E arm_id \in DOMAIN tasks : MonitorLevel(arm_id, "ok")
    \/ \E arm_id \in DOMAIN tasks : MonitorFinish(arm_id)

SpecLadder == InitTrade /\ [][NextLadder]_vars

(***************************************************************************)
(* Liveness of the monitors: the arms and monitors of SpecMonitor, with    *)
(* the event loop scheduling every monitor that can run, every call to the *)
(* exchange answering (with any payload, or an error), and the clock       *)
(* advancing: past every deadline, and as long as a monitor sleeps.        *)
(***************************************************************************)
\* every arm is created while the session lives, so before SESSION_TTL_SECONDS, and
\* has its deadline max_minutes = 1 minute later
MaxTimeLive == SESSION_TTL_SECONDS + MINUTE

\* a monitor is in asyncio.sleep, to wake later than now
Sleeping == \E arm_id \in DOMAIN tasks :
                tasks[arm_id].pc = "loop" /\ tasks[arm_id].wake_at > now

\* a sleep started by MaxTimeLive ends a poll interval later, and the iteration another
\* monitor finishes meanwhile puts that monitor to sleep for one more interval
TickLive == Tick(IF Sleeping THEN MaxTimeLive + MaxArms * TP_POLL_SECONDS ELSE MaxTimeLive)

\* the steps of the monitor coroutine of one arm
MonitorStep(arm_id) ==
    \/ MonitorStart(arm_id)
    \/ MonitorLoop(arm_id)
    \/ \E answer \in PollAnswers : MonitorPoll(arm_id, answer)
    \/ \E answer \in {"ok", "error"} : MonitorLevel(arm_id, answer)
    \/ MonitorFinish(arm_id)

\* an arm of two levels with a signed order for each
LadderOfTwo ==
    ArmPayload(<<Level(500), Level(500)>>,
               <<Item(0, GoodOrder("SELL", "s1")), Item(1, GoodOrder("SELL", "s2"))>>)

NextLive ==
    \/ TickLive
    \/ \E payload \in IF next_id.arm = 1 THEN {LadderOfTwo} ELSE {SingleArmRequest} :
          arm_tp(1, payload, MaxArms)
    \/ \E arm_id \in DOMAIN tasks : MonitorStep(arm_id)

SpecLive ==
    /\ InitTrade
    /\ [][NextLive]_vars
    /\ WF_vars(TickLive)
    /\ \A k \in 1 .. MaxArms : WF_vars(MonitorStep(ArmIds[k]))

(***************************************************************************)
(* Threads on the Store (backend/store.py): the worker threads of the HTTP *)
(* handlers and the event-loop thread of the monitors call the Store at    *)
(* the same time.  tasks[w] is the position of thread w in its call: it    *)
(* waits for self._lock, holds it, has read the Store, has returned.       *)
(* A nonce was issued to 0xaa at time 0.                                   *)
(***************************************************************************)
MaxWorkers == 4

Workers == 1 .. MaxWorkers

\* the calls the threads make
ConsumeCall(address, nonce) ==
    [name |-> "consume_nonce", address |-> address, nonce |-> nonce, key |-> <<>>]
MarkCall(key) == [name |-> "mark_idempotent", address |-> "", nonce |-> 0, key |-> key]

StoreCalls ==
    { ConsumeCall(address, nonce) : address \in {"0xAA", "0xaa"}, nonce \in 1 .. 2 }
    \cup { MarkCall(<<"k1">>) }

NoRecord == [ok |-> FALSE, record |-> EmptyDict]

InitStore ==
    /\ now = 0
    /\ nonces = Put(EmptyDict, "0xaa",
                    [nonce |-> 1,
                     message |-> [address |-> "0xaa", chain_id |-> CHAIN_ID,
                                  nonce |-> NoncePlaceholder, issued_at |-> 0],
                     created_at |-> 0, expires_at |-> NONCE_TTL_SECONDS])
    /\ sessions = EmptyDict
    /\ rate_limits = EmptyDict
    /\ tp_arms = EmptyDict
    /\ idempotency_keys = {}
    /\ tasks = EmptyDict
    /\ next_id = [nonce |-> 2, token |-> 1, arm |-> 1]
    /\ upstream = <<>>
    /\ last = NoRequest
    /\ admitted = EmptyDict
    /\ consumed = [n \in 1 .. MaxNonces + 1 |-> 0]

\* the threads' steps change the nonces, the keys and the threads' positions only
StoreFrame == UNCHANGED <<now, sessions, rate_limits, tp_arms, next_id, upstream, last,
                          admitted, consumed>>

\* threading.RLock: a thread enters "with self._lock" when no other thread is inside
LockFree_no_lock(w) == TRUE
LockFree(w) == \A other \in DOMAIN tasks \ {w} : tasks[other].pc \notin {"locked", "read"}

\* a thread calls the Store and comes to "with self._lock"
StoreCall(w, call) ==
    /\ w \notin DOMAIN tasks
    /\ tasks' = Put(tasks, w, [pc |-> "waiting", call |-> call, local |-> NoRecord,
                               result |-> NoRecord])
    /\ UNCHANGED <<nonces, idempotency_keys>>
    /\ StoreFrame

\* with self._lock: (lines 37, 138)
StoreAcquire(w) ==
    /\ w \in DOMAIN tasks
    /\ tasks[w].pc = "waiting"
    /\ LockFree(w)
    /\ tasks' = [tasks EXCEPT ![w].pc = "locked"]
    /\ UNCHANGED <<nonces, idempotency_keys>>
    /\ StoreFrame

\* record = self._nonces.get(key) (line 38); key in self._idempotency_keys (line 139)
StoreRead(w) ==
    /\ w \in DOMAIN tasks
    /\ tasks[w].pc = "locked"
    /\ LET call == tasks[w].call
           key == Lower(call.address)
       IN tasks' = [tasks EXCEPT
              ![w].pc = "read",
              ![w].local =
                  IF call.name = "consume_nonce"
                  THEN IF key \in DOMAIN nonces
                       THEN [ok |-> TRUE, record |-> nonces[key]] ELSE NoRecord
                  ELSE [ok |-> call.key \in idempotency_keys, record |-> EmptyDict]]
    /\ UNCHANGED <<nonces, idempotency_keys>>
    /\ StoreFrame

\* the rest of the body, with what was read (lines 39-47, 140-142); the return
\* leaves the with block
StoreWrite(w) ==
    /\ w \in DOMAIN tasks
    /\ tasks[w].pc = "read"
    /\ LET call == tasks[w].call
           key == Lower(call.address)
           local == tasks[w].local
           Return(result) == tasks' = [tasks EXCEPT ![w].pc = "returned",
                                                    ![w].result = result]
       IN IF call.name = "consume_nonce"
          THEN /\ UNCHANGED idempotency_keys
               /\ IF ~local.ok
                  THEN Return(NoRecord) /\ UNCHANGED nonces
                  ELSE IF NonceExpired(local.record)
                  THEN Return(NoRecord) /\ nonces' = Pop(nonces, key)
                  ELSE IF local.record.nonce # call.nonce
                  THEN Return(NoRecord) /\ UNCHANGED nonces
                  ELSE Return(local) /\ nonces' = Pop(nonces, key)
          ELSE /\ UNCHANGED nonces
               /\ IF local.ok
                  THEN Return(NoRecord) /\ UNCHANGED idempotency_keys
                  ELSE /\ Return([ok |-> TRUE, record |-> EmptyDict])
                       /\ idempotency_keys' = idempotency_keys \cup {call.key}
    /\ StoreFrame

NextStore ==
    \/ Tick(MaxTime)
    \/ \E w \in Workers, call \in StoreCalls : StoreCall(w, call)
    \/ \E w \in Workers : StoreAcquire(w)
    \/ \E w \in Workers : StoreRead(w)
    \/ \E w \in Workers : StoreWrite(w)

SpecStore == InitStore /\ [][NextStore]_vars

(***************************************************************************)
(* extract_filled_tokens on the JSON of an order, before its numbers are   *)
(* converted: a value under a percentage key or an amount key is a number  *)
(* (in thousandths) or an integer beyond the range of a float, which JSON  *)
(* allows and json.loads turns into a Python int.                          *)
(***************************************************************************)
Num(v) == [t |-> "num", v |-> v]
\* an integer such as 10**400 (its value is not used: the conversion raises)
HugeInt == [t |-> "huge", v |-> 0]

\* _as_float, lines 13-26: float(value) raises OverflowError for an int too large
as_float(value) ==
    IF value.t = "num" THEN [raises |-> FALSE, val |-> value.v]
    ELSE [raises |-> TRUE, val |-> 0]

\* _collect_numeric_values, lines 29-40: the floats of the values found, unless a
\* conversion raises
collect_numeric_values(values) ==
    [raises |-> \E k \in 1 .. Len(values) : as_float(values[k]).raises,
     out |-> [k \in 1 .. Len(values) |-> as_float(values[k]).val]]

\* extract_filled_tokens, lines 58-109, on [status, pct_values, amount_values] with
\* values not yet converted: [raises, val]
extract_filled_tokens_json(order_payload, entry_size_tokens) ==
    LET pct == collect_numeric_values(order_payload.pct_values)
        amount == collect_numeric_values(order_payload.amount_values)
        Value(pct_values, amount_values) ==
            [raises |-> FALSE,
             val |-> extract_filled_tokens(
                         [status |-> order_payload.status, pct_values |-> pct_values,
                          amount_values |-> amount_values], entry_size_tokens)]
        Raised == [raises |-> TRUE, val |-> 0]
    IN IF StatusSaysFilled(order_payload.status) THEN Value(<<>>, <<>>)
       ELSE IF pct.raises THEN Raised
       ELSE IF FirstPct(pct.out, 1, entry_size_tokens) # -1 THEN Value(pct.out, <<>>)
       ELSE IF amount.raises THEN Raised
       ELSE Value(pct.out, amount.out)

MaxValues == 2

\* the values an order can have under a key: negative, zero, a fraction, a percentage,
\* above 100, in the exchange's millionths, and beyond a float
JsonNumbers ==
    { Num(-500), Num(0), Num(500), Num(30000), Num(200000), Num(2000000000), HugeInt }

ValueLists == UNION { [1 .. n -> JsonNumbers] : n \in 0 .. MaxValues }

\* <<order_payload, entry_size_tokens>>: an entry of 1 token or of 10
ExtractInputs ==
    { <<[status |-> st, pct_values |-> pv, amount_values |-> av], size>> :
        st \in {"", "live", "filled", "partially_filled"}, pv \in ValueLists,
        av \in ValueLists, size \in {1000, 10000} }

InitExtract ==
    /\ now = 0
    /\ nonces = EmptyDict
    /\ sessions = EmptyDict
    /\ rate_limits = EmptyDict
    /\ tp_arms = EmptyDict
    /\ idempotency_keys = {}
    /\ tasks = EmptyDict
    /\ next_id = [nonce |-> 1, token |-> 1, arm |-> 1]
    /\ upstream = <<>>
    /\ \E input \in ExtractInputs :
          last = [NoRequest EXCEPT !.ep = "extract_filled_tokens",
                                   !.req = [order_payload |-> input[1],
                                            entry_size_tokens |-> input[2]]]
    /\ admitted = EmptyDict
    /\ consumed = [n \in 1 .. MaxNonces + 1 |-> 0]

\* the call: last.body is what it returns
ExtractFilledTokens ==
    /\ last.ep = "extract_filled_tokens"
    /\ last.n = 0
    /\ last' = [last EXCEPT !.n = 1,
                            !.body = extract_filled_tokens_json(last.req.order_payload,
                                                                last.req.entry_size_tokens)]
    /\ UNCHANGED <<now, nonces, sessions, rate_limits, tp_arms, idempotency_keys, tasks,
                   next_id, upstream, admitted, consumed>>

NextExtract == ExtractFilledTokens

SpecExtract == InitExtract /\ [][NextExtract]_vars

(***************************************************************************)
(* The status of an order payload (_collect_status).  The payload is the   *)
(* list of its items in the order of the dict: an item is a scalar under   *)
(* one of the keys status, state, order_status ([t, v], fields empty), or  *)
(* a dict ([t |-> "dict"]) whose fields are scalars under such keys.       *)
(***************************************************************************)
\* str.lower() of the texts the payloads use
StatusLower(text) == IF text = "FILLED" THEN "filled" ELSE text

\* None
NoStatus == [found |-> FALSE, text |-> ""]

RECURSIVE collect_status_fields(_, _)
\* _collect_status on a dict of scalars, from field i on: the first string, lowered
collect_status_fields(fields, i) ==
    IF i > Len(fields) THEN NoStatus
    ELSE IF fields[i].t = "str" THEN [found |-> TRUE, text |-> StatusLower(fields[i].v)]
    ELSE collect_status_fields(fields, i + 1)

RECURSIVE collect_status(_, _)
\* _collect_status on the payload, from item i on: a string under a status key is
\* returned at once; what a nested dict gives is returned if it is truthy
collect_status(items, i) ==
    IF i > Len(items) THEN NoStatus
    ELSE IF items[i].t = "str" THEN [found |-> TRUE, text |-> StatusLower(items[i].v)]
    ELSE IF items[i].t = "dict"
    THEN LET nested == collect_status_fields(items[i].fields, 1)
         IN IF nested.found /\ nested.text # "" THEN nested ELSE collect_status(items, i + 1)
    ELSE collect_status(items, i + 1)

\* extract_filled_tokens on [statuses, pct_values, amount_values]
extract_filled_tokens_payload(order_payload, entry_size_tokens) ==
    extract_filled_tokens_json(
        [status |-> collect_status(order_payload.statuses, 1).text,
         pct_values |-> order_payload.pct_values,
         amount_values |-> order_payload.amount_values], entry_size_tokens)

\* scalars under a status key: strings and null
StatusScalars ==
    { [t |-> "str", v |-> text, fields |-> <<>>] :
        text \in {"", "live", "filled", "FILLED", "partially_filled"} }
    \cup { [t |-> "null", v |-> "", fields |-> <<>>] }

StatusItems ==
    StatusScalars
    \cup { [t |-> "dict", v |-> "", fields |-> f] :
             f \in UNION { [1 .. n -> StatusScalars] : n \in 1 .. 2 } }

\* <<order_payload, entry_size_tokens>>: up to two items, half a token matched, an
\* entry of 1 token
StatusInputs ==
    { <<[statuses |-> items, pct_values |-> <<>>, amount_values |-> <<Num(500)>>], 1000>> :
        items \in UNION { [1 .. n -> StatusItems] : n \in 0 .. 2 } }

InitStatusText ==
    /\ now = 0
    /\ nonces = EmptyDict
    /\ sessions = EmptyDict
    /\ rate_limits = EmptyDict
    /\ tp_arms = EmptyDict
    /\ idempotency_keys = {}
    /\ tasks = EmptyDict
    /\ next_id = [nonce |-> 1, token |-> 1, arm |-> 1]
    /\ upstream = <<>>
    /\ \E input \in StatusInputs :
          last = [NoRequest EXCEPT !.ep = "extract_status",
                                   !.req = [order_payload |-> input[1],
                                            entry_size_tokens |-> input[2]]]
    /\ admitted = EmptyDict
    /\ consumed = [n \in 1 .. MaxNonces + 1 |-> 0]

\* the call: last.body is what it returns
ExtractFromPayload ==
    /\ last.ep = "extract_status"
    /\ last.n = 0
    /\ last' = [last EXCEPT !.n = 1,
                            !.body = extract_filled_tokens_payload(last.req.order_payload,
                                                                   last.req.entry_size_tokens)]
    /\ UNCHANGED <<now, nonces, sessions, rate_limits, tp_arms, idempotency_keys, tasks,
                   next_id, upstream, admitted, consumed>>

SpecStatusText == InitStatusText /\ [][ExtractFromPayload]_vars

(***************************************************************************)
(* Normalization of a signed order for the CLOB (backend/clob_session.py). *)
(* The order is the JSON the browser sent, field by field: a JSON scalar   *)
(* [t, v] with t one of "int", "float", "bool", "str", "null" and v its    *)
(* text.  An integer is kept as its decimal text, which is what str(int)   *)
(* gives and what int(str) reads.                                          *)
(***************************************************************************)
JFloat(text) == [t |-> "float", v |-> text]
JBool(text) == [t |-> "bool", v |-> text]

\* str.strip()
Strip(text) ==
    IF text = " 101 " THEN "101" ELSE IF text = " 0xaa " THEN "0xaa"
    ELSE IF text = " sell " THEN "sell" ELSE IF text = " 0xsig " THEN "0xsig"
    ELSE IF text = " " THEN "" ELSE text

\* int(text), int(text, 16) for a text that starts with 0x, and int(float): the
\* decimal text of the integer, "" when the conversion raises ValueError
IntOfText(text) ==
    IF text \in {"0", "1", "2", "5", "101", "-5", "9007199254740992"} THEN text
    ELSE IF text = "0101" THEN "101" ELSE IF text = "+5" THEN "5" ELSE ""
IntOfHex(text) ==
    IF text = "0x65" THEN "101" ELSE IF text = "0X1" THEN "1"
    ELSE IF text = "0xaa" THEN "170" ELSE ""
IntOfFloat(text) ==
    IF text = "1.5" THEN "1" ELSE IF text = "101.0" THEN "101" ELSE ""

StartsWith0x(text) == text \in {"0x65", "0X1", "0xaa", "0xAA", "0xAa", "0xaA", "0xsig", "0xzz"}

\* _to_int, lines 23-33: [ok, n] with n the decimal text of the integer
to_int(value) ==
    LET Parsed(text) == [ok |-> text # "", n |-> text] IN
    IF value.t = "bool" THEN Parsed("")
    ELSE IF value.t = "int" THEN Parsed(value.v)
    ELSE IF value.t = "str"
         THEN IF StartsWith0x(Strip(value.v)) THEN Parsed(IntOfHex(Strip(value.v)))
              ELSE Parsed(IntOfText(Strip(value.v)))
    ELSE IF value.t = "float" THEN Parsed(IntOfFloat(value.v))
    ELSE Parsed("")

\* clob_session._normalize_side, lines 36-46: [ok, side]
clob_normalize_side(value) ==
    IF value.t = "str" /\ Upper(Strip(value.v)) \in {"BUY", "SELL"}
    THEN [ok |-> TRUE, side |-> Upper(Strip(value.v))]
    ELSE IF to_int(value).ok /\ to_int(value).n = "0" THEN [ok |-> TRUE, side |-> "BUY"]
    ELSE IF to_int(value).ok /\ to_int(value).n = "1" THEN [ok |-> TRUE, side |-> "SELL"]
    ELSE [ok |-> FALSE, side |-> ""]

\* str(value or ""): None, "", 0 and False are falsy
StrOrEmpty(value) ==
    IF value.t = "null" THEN ""
    ELSE IF value.t = "int" /\ value.v = "0" THEN ""
    ELSE IF value.t = "bool" /\ value.v = "False" THEN ""
    ELSE value.v

\* eth_utils.is_address: hex of an address in lower case, in upper case, or in mixed
\* case with the right checksum
is_address_lower_only(text) == text = "0xaa"
is_address(text) == text \in {"0xaa", "0xAA", "0xAa"}

\* eth_utils.to_checksum_address
to_checksum_address(text) == "0xAa"

\* clob_session._normalize_addr, lines 49-53: [ok, addr]
clob_normalize_addr(value) ==
    LET text == Strip(StrOrEmpty(value)) IN
    IF ~is_address(text) THEN [ok |-> FALSE, addr |-> ""]
    ELSE [ok |-> TRUE, addr |-> to_checksum_address(text)]

\* 0 <= salt <= _MAX_SAFE_JSON_INT = 9007199254740991
SaltInRange(n) == n \notin {"-5", "9007199254740992"}

\* the fields that become str(_to_int(.))
TextIntFields == {"tokenId", "makerAmount", "takerAmount", "expiration", "nonce", "feeRateBps"}

AddrFields == {"maker", "signer", "taker"}

OrderFields == {"salt", "side", "signatureType", "signature"} \cup TextIntFields \cup AddrFields

\* _normalize_signed_order_payload, lines 56-82: [raises, order]
normalize_signed_order_payload(signed_order) ==
    LET signature == Strip(StrOrEmpty(signed_order["signature"]))
        salt == to_int(signed_order["salt"])
        normalized ==
            [f \in OrderFields |->
                IF f = "salt" THEN JInt(salt.n)
                ELSE IF f \in AddrFields THEN JStr(clob_normalize_addr(signed_order[f]).addr)
                ELSE IF f \in TextIntFields THEN JStr(to_int(signed_order[f]).n)
                ELSE IF f = "side" THEN JStr(clob_normalize_side(signed_order[f]).side)
                ELSE IF f = "signatureType" THEN JInt(to_int(signed_order[f]).n)
                ELSE JStr(signature)]
        returns ==
            /\ signature # ""
            /\ salt.ok /\ SaltInRange(salt.n)
            /\ \A f \in AddrFields : clob_normalize_addr(signed_order[f]).ok
            /\ \A f \in TextIntFields \cup {"signatureType"} : to_int(signed_order[f]).ok
            /\ clob_normalize_side(signed_order["side"]).ok
    IN IF returns THEN [raises |-> FALSE, order |-> normalized]
       ELSE [raises |-> TRUE, order |-> EmptyDict]

\* the ways a client writes an integer, an address, a side and a signature
IntForms ==
    { JInt("101"), JInt("0"), JInt("-5"), JStr("101"), JStr(" 101 "), JStr("0101"),
      JStr("0x65"), JStr("abc"), JFloat("101.0"), JBool("True"), JNull }
SaltForms == { JInt("5"), JInt("-5"), JInt("9007199254740992"), JStr("+5"), JFloat("1.5"), JNull }
AddrForms ==
    { JStr("0xaa"), JStr("0xAA"), JStr("0xAa"), JStr("0xaA"), JStr(" 0xaa "), JInt("5"), JNull }
SideForms ==
    { JStr("BUY"), JStr("sell"), JStr(" sell "), JStr("x"), JInt("0"), JInt("1"), JStr("1"),
      JInt("2"), JNull }
SignatureTypeForms == { JInt("0"), JInt("2"), JStr("0X1"), JNull }
SignatureForms == { JStr("0xsig"), JStr(" 0xsig "), JStr(" "), JInt("5"), JInt("0"), JNull }

\* the orders: the three addresses are written one way, the six integer fields one way
NormalizeInputs ==
    { [f \in OrderFields |->
          IF f = "salt" THEN c[1] ELSE IF f \in AddrFields THEN c[2]
          ELSE IF f \in TextIntFields THEN c[3] ELSE IF f = "side" THEN c[4]
          ELSE IF f = "signatureType" THEN c[5] ELSE c[6]] :
        c \in SaltForms \X AddrForms \X IntForms \X SideForms \X SignatureTypeForms
               \X SignatureForms }

InitNormalize ==
    /\ now = 0
    /\ nonces = EmptyDict
    /\ sessions = EmptyDict
    /\ rate_limits = EmptyDict
    /\ tp_arms = EmptyDict
    /\ idempotency_keys = {}
    /\ tasks = EmptyDict
    /\ next_id = [nonce |-> 1, token |-> 1, arm |-> 1]
    /\ upstream = <<>>
    /\ \E x \in NormalizeInputs : last = [NoRequest EXCEPT !.ep = "normalize", !.req = x]
    /\ admitted = EmptyDict
    /\ consumed = [n \in 1 .. MaxNonces + 1 |-> 0]

NormalizeFrame == UNCHANGED <<now, nonces, sessions, rate_limits, tp_arms, idempotency_keys,
                              tasks, next_id, upstream, admitted, consumed>>

\* norm(x): last.body is what the call gives
Normalize ==
    /\ last.ep = "normalize"
    /\ last.n = 0
    /\ last' = [last EXCEPT !.n = 1, !.body = normalize_signed_order_payload(last.req)]
    /\ NormalizeFrame

\* norm(norm(x)): the order the first call returned is normalized; x and the first
\* result are kept in last.calls
NormalizeAgain ==
    /\ last.ep = "normalize"
    /\ last.n = 1
    /\ ~last.body.raises
    /\ last' = [last EXCEPT !.n = 2, !.req = last.body.order, !.calls = <<last.req, last.body>>,
                            !.body = normalize_signed_order_payload(last.body.order)]
    /\ NormalizeFrame

NextNormalize == Normalize \/ NormalizeAgain

SpecNormalize == InitNormalize /\ [][NextNormalize]_vars

(***************************************************************************)
(* Arming with any list of levels: none, four, levels of 0 or more than    *)
(* 100 percent, and sums inside, at the edge of and outside the band of    *)
(* 0.2 around 100.                                                         *)
(***************************************************************************)
LevelLists ==
    { <<>>, <<Level(1000)>>, <<Level(998)>>, <<Level(1001)>>, <<Level(0), Level(1000)>>,
      <<Level(500), Level(500)>>, <<Level(501), Level(501)>>, <<Level(499), Level(499)>>,
      <<Level(500), Level(501)>>, <<Level(600), Level(300)>>, <<Level(500), Level(503)>>,
      <<Level(334), Level(334), Level(334)>>, <<Level(401), Level(300), Level(301)>>,
      <<Level(333), Level(333), Level(333)>>, <<Level(332), Level(333), Level(333)>>,
      <<Level(334), Level(334), Level(335)>>, <<Level(500), Level(300), Level(200)>>,
      <<Level(250), Level(250), Level(250), Level(250)>> }

LevelArmRequests ==
    { ArmPayload(levels, <<Item(0, GoodOrder("SELL", "s1"))>>) : levels \in LevelLists }

NextLevels ==
    \/ Tick(MaxTimeTrade)
    \/ \E payload \in LevelArmRequests : arm_tp(1, payload, MaxArms)
    \/ \E arm_id \in DOMAIN tp_arms : get_tp_status(1, arm_id)

SpecLevels == InitTrade /\ [][NextLevels]_vars

(***************************************************************************)
(* Fills that go up and down: one arm and its monitor, the entry order     *)
(* reported as filled to 20 percent, to 50 percent or wholly, in any       *)
(* order, or not reported at all.                                          *)
(***************************************************************************)
FillAnswers == PollAnswers \cup { Order("live", <<>>, <<2000>>) }

\* the arms of MonitorArmRequests, and one of two levels with a signed order for
\* the second level only
FillArmRequests ==
    MonitorArmRequests
    \cup { ArmPayload(<<Level(500), Level(500)>>, <<Item(1, GoodOrder("SELL", "s2"))>>) }

NextFills ==
    \/ Tick(MaxTimeTrade)
    \/ \E payload \in FillArmRequests : arm_tp(1, payload, 1)
    \/ \E arm_id \in DOMAIN tasks : MonitorStart(arm_id)
    \/ \E arm_id \in DOMAIN tasks : MonitorLoop(arm_id)
    \/ \E arm_id \in DOMAIN tasks, answer \in FillAnswers : MonitorPoll(arm_id, answer)
    \/ \E arm_id \in DOMAIN tasks, answer \in {"ok", "error"} : MonitorLevel(arm_id, answer)
    \/ \E arm_id \in DOMAIN tasks : MonitorFinish(arm_id)

SpecFills == InitTrade /\ [][NextFills]_vars

(***************************************************************************)
(* Full fill: one arm whose ladder /api/tp/arm accepts, with a signed      *)
(* order for every level; the CLOB accepts every TP order, and the polls   *)
(* report the entry order half filled or filled.                           *)
(***************************************************************************)
FullFillLadders ==
    { <<Level(500), Level(500)>>, <<Level(500), Level(499)>>, <<Level(500), Level(501)>>,
      <<Level(334), Level(334), Level(334)>> }

FullFillArmRequests ==
    { ArmPayload(levels,
                 [idx \in 1 .. Len(levels) |->
                     Item(idx - 1, GoodOrder("SELL", IF idx = 1 THEN "s1"
                                                     ELSE IF idx = 2 THEN "s2" ELSE "s3"))]) :
        levels \in FullFillLadders }

FullFillAnswers == { Order("partially_filled", <<>>, <<5000>>), Order("filled", <<>>, <<>>) }

NextFullFill ==
    \/ Tick(MaxTimeTrade)
    \/ \E payload \in FullFillArmRequests : arm_tp(1, payload, 1)
    \/ \E arm_id \in DOMAIN tasks : MonitorStart(arm_id)
    \/ \E arm_id \in DOMAIN tasks : MonitorLoop(arm_id)
    \/ \E arm_id \in DOMAIN tasks, answer \in FullFillAnswers : MonitorPoll(arm_id, answer)
    \/ \E arm_id \in DOMAIN tasks : MonitorLevel(arm_id, "ok")
    \/ \E arm_id \in DOMAIN tasks : MonitorFinish(arm_id)

SpecFullFill == InitTrade /\ [][NextFullFill]_vars

(***************************************************************************)
(* Retries: limit orders that carry an idempotency_key, some of them       *)
(* refused by field validation, by signature recovery or by the CLOB.      *)
(***************************************************************************)
\* <<cookie, payload, answer of the CLOB>>
RetryRequests ==
    { <<c, LimitPayload(o, Key(<<k>>)), a>> :
        c \in {0, 1}, k \in {"k1", "k2"}, a \in {"ok", "error"},
        o \in { GoodOrder("BUY", "s0"),
                [GoodOrder("BUY", "s0") EXCEPT !.tokenId = JStr("102")],
                [GoodOrder("BUY", "s0") EXCEPT !.signature = Signature("s0", "0xbb", "regular")],
                [GoodOrder("BUY", "s0") EXCEPT !.side = JInt("5")] } }

NextRetry ==
    \/ Tick(MaxTimeTrade)
    \/ \E r \in RetryRequests : place_limit_order(r[1], r[2], r[3])

SpecRetry == InitTrade /\ [][NextRetry]_vars

(***************************************************************************)
(* Keys: limit orders of two sessions that carry an idempotency_key, and   *)
(* the monitor of one arm of the first session.                            *)
(***************************************************************************)
\* the order the second user's wallet signs for token 101 (maker is the proxy)
ProxyOrder(side, hex) ==
    [signer |-> "0xbb", maker |-> ProxyAddress, signatureType |-> JInt("2"),
     tokenId |-> JStr("101"), side |-> JStr(side),
     signature |-> Signature(hex, "0xbb", "regular")]

\* the keys clients send: "k1" and "tp_1:0:s1"
ClientKeys == { <<"k1">>, IdemKey("tp_1", 0, "s1") }

\* <<cookie, payload, answer of the CLOB>>
KeyRequests ==
    { <<1, LimitPayload(GoodOrder("BUY", "s0"), Key(k)), "ok">> : k \in ClientKeys }
    \cup { <<2, LimitPayload(ProxyOrder("BUY", "t0"), Key(k)), "ok">> : k \in ClientKeys }

NextKeys ==
    \/ Tick(MaxTimeTrade)
    \/ \E r \in KeyRequests : place_limit_order(r[1], r[2], r[3])
    \/ arm_tp(1, SingleArmRequest, 1)
    \/ \E arm_id \in DOMAIN tasks : MonitorStart(arm_id)
    \/ \E arm_id \in DOMAIN tasks : MonitorLoop(arm_id)
    \/ \E arm_id \in DOMAIN tasks : MonitorPoll(arm_id, Order("filled", <<>>, <<>>))
    \/ \E arm_id \in DOMAIN tasks : MonitorLevel(arm_id, "ok")
    \/ \E arm_id \in DOMAIN tasks : MonitorFinish(arm_id)

SpecKeys == InitTrade /\ [][NextKeys]_vars

(***************************************************************************)
(* Status: three sessions, of 0xAA, of 0xbb and of 0xaa (the first user    *)
(* logged in with the other spelling), arm and ask for the status of arms. *)
(***************************************************************************)
InitStatus ==
    /\ now = 0
    /\ nonces = EmptyDict
    /\ sessions = (1 :> LoggedIn(1, "0xAA", "none")) @@ (2 :> LoggedIn(2, "0xbb", ProxyAddress))
                   @@ (3 :> LoggedIn(3, "0xaa", "none"))
    /\ rate_limits = EmptyDict
    /\ tp_arms = EmptyDict
    /\ idempotency_keys = {}
    /\ tasks = EmptyDict
    /\ next_id = [nonce |-> 1, token |-> 4, arm |-> 1]
    /\ upstream = <<>>
    /\ last = NoRequest
    /\ admitted = EmptyDict
    /\ consumed = [n \in 1 .. MaxNonces + 1 |-> 0]

\* <<cookie, payload>>
StatusArmRequests ==
    { <<1, SingleArmRequest>>, <<3, SingleArmRequest>>,
      <<2, ArmPayload(<<Level(1000)>>, <<Item(0, ProxyOrder("SELL", "t1"))>>)>> }

\* the arm_id of a status request: none, those of the arms, and one of no arm
StatusArmIds == {"", "tp_1", "tp_2", "tp_9"}

NextStatus ==
    \/ Tick(MaxTimeTrade)
    \/ \E r \in StatusArmRequests : arm_tp(r[1], r[2], MaxArms)
    \/ \E c \in TradeCookies, arm_id \in StatusArmIds : get_tp_status(c, arm_id)

SpecStatus == InitStatus /\ [][NextStatus]_vars

(***************************************************************************)
(* Snapshot: one arm of two levels; the session that armed it expires or   *)
(* is deleted while the monitor runs.  The monitor is scheduled and the    *)
(* clock advances, as in SpecLive.                                         *)
(***************************************************************************)
NextSnapshot ==
    \/ TickLive
    \/ arm_tp(1, LadderOfTwo, 1)
    \/ DeleteSession(1)
    \/ \E arm_id \in DOMAIN tasks : MonitorStep(arm_id)

SpecSnapshot ==
    /\ InitTrade
    /\ [][NextSnapshot]_vars
    /\ WF_vars(TickLive)
    /\ WF_vars(MonitorStep("tp_1"))

(***************************************************************************)
(* Cancellation: one arm, its monitor, and another writer of the Store     *)
(* (a worker thread calling update_tp_arm) that sets the arm's status to   *)
(* cancelled at any moment, also in the middle of a monitor iteration.     *)
(***************************************************************************)
\* InMemoryStore.update_tp_arm(arm_id, {"status": "cancelled"}), from another thread
CancelArm(arm_id) ==
    /\ arm_id \in DOMAIN tp_arms
    /\ tp_arms[arm_id].status = "armed"
    /\ tp_arms' = update_tp_arm_status(tp_arms, arm_id, "cancelled")
    /\ UNCHANGED <<now, nonces, sessions, rate_limits, idempotency_keys, tasks, next_id,
                   upstream, last, admitted, consumed>>

NextCancel ==
    \/ Tick(MaxTimeTrade)
    \/ \E payload \in MonitorArmRequests : arm_tp(1, payload, 1)
    \/ \E arm_id \in DOMAIN tasks : MonitorStart(arm_id)
    \/ \E arm_id \in DOMAIN tasks : MonitorLoop(arm_id)
    \/ \E arm_id \in DOMAIN tasks, answer \in PollAnswers : MonitorPoll(arm_id, answer)
    \/ \E arm_id \in DOMAIN tasks, answer \in {"ok", "error"} : MonitorLevel(arm_id, answer)
    \/ \E arm_id \in DOMAIN tasks : MonitorFinish(arm_id)
    \/ \E arm_id \in DOMAIN tp_arms : CancelArm(arm_id)

SpecCancel == InitTrade /\ [][NextCancel]_vars

(***************************************************************************)
(* The rate limiter alone: requests that stop at the address check, from   *)
(* two client addresses and on both buckets.                               *)
(***************************************************************************)
Ips == {<<"ip1">>, <<"ip2">>}
Buckets == {<<"nonce">>, <<"verify">>}

BadVerifyRequest ==
    [address |-> NotAnAddress, nonce |-> 1,
     message |-> [address |-> NotAnAddress, chain_id |-> CHAIN_ID, nonce |-> 1,
                  issued_at |-> 0],
     signature |-> NoSigner, clob_auth_signature |-> NoSigner]

NextRate ==
    \/ Tick(MaxTime)
    \/ \E ip \in Ips : create_nonce_handler(ip, NotAnAddress)
    \/ verify_auth(<<"ip1">>, BadVerifyRequest, {"none"})

SpecRate == Init /\ [][NextRate]_vars

(***************************************************************************)
(* Claims about the authentication handshake                               *)
(***************************************************************************)
\* the step handles a request of endpoint ep
Handled(ep) == last'.n # last.n /\ last'.ep = ep

\* the nonce was already consumed, or is stored and already expired
NonceDead(nonce) ==
    \/ consumed[nonce] >= 1
    \/ \E key \in DOMAIN nonces : nonces[key].nonce = nonce /\ nonces[key].expires_at < now

\* C5 as stated: consume_nonce returns the record of a nonce at most once, and every
\* /auth/verify presenting a consumed or expired nonce is answered 400 "Nonce is
\* invalid or expired" and creates no session.
C5_AsStated ==
    /\ [](\A n \in DOMAIN consumed : consumed[n] <= 1)
    /\ [][ (Handled("verify") /\ NonceDead(last'.req.nonce))
             => /\ last'.status = 400
                /\ last'.detail = "Nonce is invalid or expired"
                /\ sessions' = sessions ]_vars

\* C5 amended: consume_nonce returns the record of a nonce at most once; every
\* /auth/verify presenting a consumed or expired nonce creates no session, and is
\* answered 400 "Nonce is invalid or expired" unless the rate limiter rejected it
\* first (429) or its address is not an address (400 "Invalid EVM address").
C5_NonceSingleUse ==
    /\ [](\A n \in DOMAIN consumed : consumed[n] <= 1)
    /\ [][ (Handled("verify") /\ NonceDead(last'.req.nonce))
             => /\ sessions' = sessions
                /\ last'.cookie = 0
                /\ \/ last'.status = 429
                   \/ last'.status = 400 /\ last'.detail = "Invalid EVM address"
                                         /\ last'.req.address = NotAnAddress
                   \/ last'.status = 400 /\ last'.detail = "Nonce is invalid or expired" ]_vars

\* a replayed nonce was presented and answered "Nonce is invalid or expired"
C5_Witness ==
    /\ last.ep = "verify" /\ last.status = 400
    /\ last.detail = "Nonce is invalid or expired"
    /\ consumed[last.req.nonce] = 1

\* the first check of verify_auth, in the order of the claim, that request r fails in
\* the current state ("" if none of the first four fails)
FirstFailedCheck(r) ==
    LET key == Lower(r.address) IN
    IF ~(key \in DOMAIN nonces /\ nonces[key].nonce = r.nonce /\ nonces[key].expires_at >= now)
    THEN "Nonce is invalid or expired"
    ELSE IF r.message # [nonces[key].message EXCEPT !.nonce = r.nonce]
    THEN "Signed message mismatch"
    ELSE IF r.signature = NoSigner THEN "Invalid signature"
    ELSE IF Lower(r.signature) # Lower(r.address) THEN "SIWE signature address mismatch"
    ELSE IF r.clob_auth_signature = NoSigner THEN "Invalid CLOB auth signature"
    ELSE IF Lower(r.clob_auth_signature) # Lower(r.address) THEN "CLOB auth signer mismatch"
    ELSE ""

\* C8: a session appears (and the cookie is set) only in an /auth/verify step whose
\* nonce was consumed, whose message is the stored template with the nonce, whose
\* SIWE and CLOB-auth signers are the address and whose derived credentials are
\* complete; a verify request failing one of the checks gets the error of the first
\* check it fails, in that order, and leaves the sessions as they were.
C8_SessionOnlyAfterAllChecks ==
    [][ /\ (\/ sessions' # sessions
            \/ last'.n # last.n /\ last'.cookie # 0
            \/ Handled("verify") /\ last'.status = 200)
           => /\ Handled("verify") /\ last'.status = 200
              /\ FirstFailedCheck(last'.req) = ""
              /\ Lower(last'.req.address) \notin DOMAIN nonces'
              /\ consumed'[last'.req.nonce] = consumed[last'.req.nonce] + 1
              /\ last'.cookie \notin DOMAIN sessions
              /\ sessions' = Put(sessions, last'.cookie, sessions'[last'.cookie])
              /\ sessions'[last'.cookie].eoa_address = last'.req.address
              /\ \A f \in {"api_key", "api_secret", "api_passphrase"} :
                     sessions'[last'.cookie].clob_creds[f] # <<>>
        /\ (Handled("verify") /\ last'.status = 400 /\ last'.req.address # NotAnAddress)
           => /\ sessions' = sessions /\ last'.cookie = 0
              /\ IF FirstFailedCheck(last'.req) # ""
                 THEN last'.detail = FirstFailedCheck(last'.req)
                 ELSE last'.detail \in {"Failed to derive CLOB API credentials",
                                        "CLOB credential payload missing fields"}
      ]_vars

\* a session created by a verify request
C8_Witness ==
    /\ last.ep = "verify" /\ last.status = 200
    /\ last.cookie \in DOMAIN sessions

(***************************************************************************)
(* Claims about the rate limiter                                           *)
(***************************************************************************)
\* the number of timestamps of s in [t - window, t]
RECURSIVE CountIn(_, _, _)
CountIn(s, lo, hi) ==
    IF s = <<>> THEN 0
    ELSE (IF lo <= Head(s) /\ Head(s) <= hi THEN 1 ELSE 0) + CountIn(Tail(s), lo, hi)

MaxLevels == 3

\* the calls of post_signed_order the monitors made for level idx of an arm
PostsFor(arm_id, idx) ==
    { k \in 1 .. Len(upstream) : upstream[k].arm_id = arm_id /\ upstream[k].level = idx }

\* the monitor of arm_id is past the for loop of an iteration in which level idx had its
\* threshold crossed and a signed order
CrossedAtFinish(arm_id, idx) ==
    /\ tasks[arm_id].pc = "finish"
    /\ idx < Len(tasks[arm_id].arm.levels)
    /\ idx \in DOMAIN tasks[arm_id].arm.signed_tp_orders
    /\ ~BelowThreshold(tasks[arm_id].filled_tokens, tasks[arm_id].arm.entry_size_tokens,
                       Cumulative(tasks[arm_id].arm.levels, idx + 1))

\* C1: for every TP arm and every level index, over all iterations of all monitors
\* (those that raise included), post_signed_order is called at most once.
C1_PostAtMostOnce ==
    \A arm_id \in DOMAIN tp_arms : \A idx \in 0 .. MaxLevels - 1 :
        Cardinality(PostsFor(arm_id, idx)) <= 1

\* a post for a level raised, and a later iteration of the same monitor went through
\* its levels with that level's threshold crossed
C1_Witness ==
    \E arm_id \in DOMAIN tasks : \E idx \in 0 .. MaxLevels - 1 :
        /\ CrossedAtFinish(arm_id, idx)
        /\ \E k \in PostsFor(arm_id, idx) : ~upstream[k].ok

C2_EntriesKept ==
    \A arm_id \in DOMAIN tp_arms : \A key \in DOMAIN tp_arms[arm_id].placed_levels :
        /\ arm_id \in DOMAIN tp_arms'
        /\ key \in DOMAIN tp_arms'[arm_id].placed_levels
        /\ tp_arms'[arm_id].placed_levels[key] = tp_arms[arm_id].placed_levels[key]

\* C2: the stored placed_levels of an arm never has more entries than the arm has
\* levels, and an entry it has is never removed or changed by a later step.
C2_PlacedLevelsBounded ==
    /\ [](\A arm_id \in DOMAIN tp_arms :
            Cardinality(DOMAIN tp_arms[arm_id].placed_levels) <= Len(tp_arms[arm_id].levels))
    /\ [][C2_EntriesKept]_vars

\* an arm has a stored entry for level 0 and a later iteration is about to store one
\* for level 1 as well
C2_Witness ==
    \E arm_id \in DOMAIN tasks :
        /\ tasks[arm_id].pc = "finish"
        /\ DOMAIN tp_arms[arm_id].placed_levels = {"0"}
        /\ DOMAIN tasks[arm_id].placed_levels = {"0", "1"}

\* the events of an arm gain a poll_error in this step
PollErrorAppended(arm_id) ==
    /\ Len(tp_arms'[arm_id].events) = Len(tp_arms[arm_id].events) + 1
    /\ tp_arms'[arm_id].events[Len(tp_arms'[arm_id].events)].event = "poll_error"

\* a monitor step raised: its get_order failed, or its post_signed_order did
IterationRaised(arm_id) ==
    /\ arm_id \in DOMAIN tasks
    /\ tasks[arm_id].pc \in {"poll", "levels"}
    /\ tasks'[arm_id].pc = "loop"

\* C3, as the specification states it: an iteration that raises appends a poll_error
\* and leaves the arm armed, and the failed work is done again: an iteration that
\* gets through its levels has posted, now or before, every level that has a signed
\* order and whose threshold is crossed.
C3_AsStated ==
    /\ [][\A arm_id \in DOMAIN tasks :
            IterationRaised(arm_id) =>
                PollErrorAppended(arm_id) /\ tp_arms'[arm_id].status = "armed"]_vars
    /\ [](\A arm_id \in DOMAIN tasks : \A idx \in 0 .. MaxLevels - 1 :
            CrossedAtFinish(arm_id, idx) => IdxStr(idx) \in DOMAIN tasks[arm_id].placed_levels)

(***************************************************************************)
(* Claims about the trading endpoints (SpecTrade)                          *)
(***************************************************************************)
\* a JSON body carries the CLOB credentials of a session
BodyHasCreds(body) ==
    \/ "clob_creds" \in DOMAIN body
    \/ /\ "arms" \in DOMAIN body
       /\ \E i \in 1 .. Len(body.arms) : "clob_creds" \in DOMAIN body.arms[i]

\* C4, as the specification states it: no response body holds clob_creds.
C4_AsStated == ~BodyHasCreds(last.body)

\* the signature of an order recovers the EOA under one of the two exchange variants
RecoversEoa(signed_order, eoa_address) ==
    \E exchange \in {"regular", "neg_risk"} :
        Lower(recover_order_signer_for_exchange(signed_order, exchange)) = Lower(eoa_address)

\* C6, as the specification states it: every signed order forwarded to the CLOB, by
\* /api/order/limit or by a monitor, has a signature that recovers the session EOA
\* under the regular or the neg-risk exchange.
C6_AsStated ==
    /\ \A k \in 1 .. Len(upstream) :
          RecoversEoa(upstream[k].signed_order, upstream[k].creds)
    /\ \A k \in 1 .. Len(last.calls) :
          last.ep = "limit" => RecoversEoa(last.calls[k].signed_order, last.calls[k].creds)

\* a signed order differs from what the session and the request expect
Mismatch(signed_order, session, token_id, expected_side) ==
    \/ Lower(signed_order.signer) # Lower(session.eoa_address)
    \/ Lower(signed_order.maker) # Lower(session.trading_context.trading_address)
    \/ ~ParseInt(signed_order.signatureType).ok
    \/ ParseInt(signed_order.signatureType).n # session.trading_context.signature_type
    \/ Str(signed_order.tokenId) # token_id
    \/ ~normalize_side(signed_order.side).ok
    \/ normalize_side(signed_order.side).side # expected_side

C7_Limit ==
    \A r \in LimitRequests :
        /\ r[1] \in DOMAIN sessions
        /\ Mismatch(r[2].signed_order, sessions[r[1]], r[2].token_id, r[2].side)
        /\ place_limit_order(r[1], r[2], r[3])
        /\ last'.status # 401
        => last'.calls = <<>> /\ last'.status = 400

C7_Arm ==
    \A r \in ArmRequests :
        /\ r[1] \in DOMAIN sessions
        /\ \E i \in 1 .. Len(r[2].signed_tp_orders) :
              Mismatch(r[2].signed_tp_orders[i].signed_order, sessions[r[1]], r[2].token_id,
                       "SELL")
        /\ arm_tp(r[1], r[2], 1)
        /\ last'.status # 401
        => tp_arms' = tp_arms /\ tasks' = tasks /\ last'.status = 400

\* C7, as the specification states it: a limit request whose signed order mismatches
\* in signer, maker, signatureType, tokenId or side makes no upstream call, an arm
\* request with such an order creates no arm and no monitor, and both fail with 400.
C7_AsStated == [][C7_Limit /\ C7_Arm]_vars

TradeEndpoints == {"limit", "tp_arm", "tp_status", "me"}

\* the store holds a session for the cookie and it has not expired
SessionLive(cookie) == cookie \in DOMAIN sessions /\ ~(sessions[cookie].expires_at < now)

C9_Step ==
    \A cookie \in TradeCookies :
        (\E ep \in TradeEndpoints : Handled(ep)) /\ last'.req.cookie = cookie
        => IF SessionLive(cookie)
           THEN last'.status # 401 /\ sessions' = sessions
           ELSE /\ last'.status = 401
                /\ last'.calls = <<>>
                /\ UNCHANGED <<upstream, tp_arms, tasks, idempotency_keys>>
                /\ cookie \notin DOMAIN sessions'

\* C9: a session-protected endpoint answers 401 and changes no order, arm, monitor or
\* idempotency key when the cookie is absent, unknown, deleted or expired; a live
\* session is never refused, and an expired one is removed by the access.
C9_Unauthenticated == [][C9_Step]_vars

\* the second user's session expired and a request with its cookie was refused and
\* removed it, after the first user armed a ladder
C9_Witness ==
    /\ last.status = 401
    /\ last.detail = "Invalid or expired session"
    /\ last.req.cookie = 2
    /\ 2 \notin DOMAIN sessions
    /\ tp_arms # EmptyDict

(***************************************************************************)
(* Claims about the idempotency set (SpecTrade)                            *)
(***************************************************************************)
\* the step handles limit request r, sent with the cookie of a session that is live
LimitHandled(r) == SessionLive(r[1]) /\ place_limit_order(r[1], r[2], r[3])

\* the response is {status: "duplicate"} and nothing was sent upstream
AnsweredDuplicate(response) ==
    /\ response.status = 200
    /\ "status" \in DOMAIN response.body
    /\ response.body.status = "duplicate"
    /\ response.calls = <<>>

\* the request is the first to use its key (the key is marked by it), or it is
\* answered "duplicate" and nothing changes
FirstOrDuplicate(key) ==
    IF key \in idempotency_keys
    THEN AnsweredDuplicate(last') /\ UNCHANGED <<idempotency_keys, upstream, tp_arms, tasks>>
    ELSE key \in idempotency_keys'

\* C11, as the specification states it: a key once marked stays marked, and every
\* limit request that carries an idempotency_key either is the first with its key or
\* is answered "duplicate" without an upstream call.
C11_AsStated ==
    [][ /\ idempotency_keys \subseteq idempotency_keys'
        /\ \A r \in LimitRequests :
              LimitHandled(r) /\ r[2].idempotency_key.given
              => FirstOrDuplicate(r[2].idempotency_key.text) ]_vars

\* C11 amended: a key once marked stays marked (so mark_idempotent returns true for
\* a key once and false ever after), and every limit request that carries a
\* non-empty idempotency_key either is the first with its key, which it marks before
\* anything else, or is answered "duplicate" without an upstream call; a request
\* with an empty key is handled like one without a key.
C11_IdempotentLimit ==
    [][ /\ idempotency_keys \subseteq idempotency_keys'
        /\ \A key \in idempotency_keys : ~mark_idempotent(key).ok
        /\ \A r \in LimitRequests :
              LimitHandled(r) =>
                 IF Truthy(r[2].idempotency_key)
                 THEN FirstOrDuplicate(r[2].idempotency_key.text)
                 ELSE idempotency_keys' = idempotency_keys /\ ~AnsweredDuplicate(last') ]_vars

\* a request repeated with its key was answered "duplicate" after the first one
\* took the key
C11_Witness ==
    /\ last.ep = "limit"
    /\ AnsweredDuplicate(last)
    /\ <<"k1">> \in idempotency_keys

(***************************************************************************)
(* Claims about the life of an arm (SpecMonitor)                           *)
(***************************************************************************)
\* C12: the monitor changes the stored status of its arm only from armed to
\* completed or from armed to timeout, and once the stored status is completed or
\* timeout nothing of the arm changes any more and its monitor takes no step: it
\* polls no order and posts none.
C12_StatusChanges ==
    [][ \A arm_id \in DOMAIN tp_arms :
          /\ tp_arms'[arm_id].status # tp_arms[arm_id].status
             => /\ tp_arms[arm_id].status = "armed"
                /\ tp_arms'[arm_id].status \in {"completed", "timeout"}
          /\ tp_arms[arm_id].status \in {"completed", "timeout"}
             => /\ tp_arms'[arm_id] = tp_arms[arm_id]
                /\ tasks[arm_id].pc = "done"
                /\ tasks'[arm_id] = tasks[arm_id]
                /\ \A idx \in 0 .. MaxLevels - 1 : PostsFor(arm_id, idx)' = PostsFor(arm_id, idx)
      ]_vars

\* one arm completed and another one timed out
C12_Witness ==
    /\ \E arm_id \in DOMAIN tp_arms : tp_arms[arm_id].status = "completed"
    /\ \E arm_id \in DOMAIN tp_arms : tp_arms[arm_id].status = "timeout"

\* C13, as the specification states it: a status of cancelled written by another
\* writer stays in the Store, and the first step of the monitor's next iteration
\* after it ends the monitor.
C13_AsStated ==
    [][ \A arm_id \in DOMAIN tp_arms :
          tp_arms[arm_id].status = "cancelled"
          => /\ tp_arms'[arm_id].status = "cancelled"
             /\ (tasks[arm_id].pc = "loop" /\ tasks'[arm_id] # tasks[arm_id])
                => tasks'[arm_id].pc = "done" ]_vars

RECURSIVE CountEvents(_, _)
\* the number of events of a kind in an event log
CountEvents(events, kind) ==
    IF events = <<>> THEN 0
    ELSE (IF Head(events).event = kind THEN 1 ELSE 0) + CountEvents(Tail(events), kind)

\* the monitor of the arm starts an iteration in this step
IterationStarts(arm_id) == tasks[arm_id].pc = "loop" /\ tasks'[arm_id] # tasks[arm_id]

\* now >= created_at + max_minutes * 60
PastDeadline(arm) == now >= arm.created_at + arm.max_minutes * MINUTE

\* C14: an iteration of an armed arm that starts at or after created_at +
\* max_minutes minutes sets the status to timeout, appends one timeout event and
\* ends the monitor without a poll or a post; the status becomes timeout in no other
\* way, and an event log never holds more than one timeout event.
C14_Timeout ==
    /\ [][ \A arm_id \in DOMAIN tp_arms :
             /\ (IterationStarts(arm_id) /\ PastDeadline(tp_arms[arm_id])
                 /\ tp_arms[arm_id].status = "armed")
                => /\ tp_arms'[arm_id] =
                         [tp_arms[arm_id] EXCEPT
                             !.status = "timeout",
                             !.events = Append(@, [event |-> "timeout", level |-> -1])]
                   /\ tasks'[arm_id].pc = "done"
                   /\ upstream' = upstream
             /\ (tp_arms'[arm_id].status = "timeout" /\ tp_arms[arm_id].status # "timeout")
                => IterationStarts(arm_id) /\ PastDeadline(tp_arms[arm_id]) ]_vars
    /\ [](\A arm_id \in DOMAIN tp_arms : CountEvents(tp_arms[arm_id].events, "timeout") <= 1)

\* an arm timed out after a poll that failed, and time went on
C14_Witness ==
    \E arm_id \in DOMAIN tp_arms :
        /\ tp_arms[arm_id].status = "timeout"
        /\ CountEvents(tp_arms[arm_id].events, "timeout") = 1
        /\ CountEvents(tp_arms[arm_id].events, "poll_error") >= 1
        /\ tasks[arm_id].pc = "done"

\* the level indexes with a placed_levels entry of status "placed"
PlacedLevels(arm) ==
    { idx \in 0 .. Len(arm.levels) - 1 :
        /\ IdxStr(idx) \in DOMAIN arm.placed_levels
        /\ arm.placed_levels[IdxStr(idx)].status = "placed" }

\* the levels the ladder has placed once the fill of a poll is dealt with
LadderPlaced(last_filled_tokens) ==
    IF last_filled_tokens < 50000 THEN {}
    ELSE IF last_filled_tokens < 80000 THEN {0}
    ELSE IF last_filled_tokens < 100000 THEN {0, 1}
    ELSE {0, 1, 2}

\* the monitor is between two iterations, or has returned
BetweenIterations(arm_id) == tasks[arm_id].pc \in {"loop", "done"}

\* C15: with levels of 50, 30 and 20 percent of 100 tokens, polls reporting
\* 40, 55, 85 and 105 leave, after each iteration: nothing placed; level 0 placed,
\* posted once; levels 0 and 1 placed; the fill recorded as 100, all three levels
\* placed, the status completed and the monitor stopped for good. No level is
\* ever posted twice.
C15_Ladder ==
    /\ [](\A arm_id \in DOMAIN tp_arms :
            LET arm == tp_arms[arm_id]
            IN /\ arm.last_filled_tokens \in {0, 40000, 55000, 85000, 100000}
               /\ \A idx \in 0 .. 2 : Cardinality(PostsFor(arm_id, idx)) <= 1
               /\ arm.status = "completed" => tasks[arm_id].pc = "done"
               /\ (BetweenIterations(arm_id) /\ arm.status # "timeout")
                  => /\ PlacedLevels(arm) = LadderPlaced(arm.last_filled_tokens)
                     /\ DOMAIN arm.placed_levels
                            = { IdxStr(idx) : idx \in LadderPlaced(arm.last_filled_tokens) }
                     /\ \A idx \in 0 .. 2 :
                            Cardinality(PostsFor(arm_id, idx))
                                = IF idx \in LadderPlaced(arm.last_filled_tokens) THEN 1 ELSE 0
                     /\ arm.status = IF arm.last_filled_tokens = 100000
                                     THEN "completed" ELSE "armed"
                     /\ tasks[arm_id].pc = "done" <=> arm.status = "completed")
    /\ [][ \A arm_id \in DOMAIN tasks :
             tasks[arm_id].pc = "done"
             => /\ tasks'[arm_id] = tasks[arm_id]
                /\ tp_arms'[arm_id] = tp_arms[arm_id]
                /\ upstream' = upstream ]_vars

\* the ladder went through all four polls: the fill is recorded as 100 tokens, the
\* three levels are placed in order and the arm is completed
C15_Witness ==
    \E arm_id \in DOMAIN tp_arms :
        /\ tp_arms[arm_id].status = "completed"
        /\ tp_arms[arm_id].last_filled_tokens = 100000
        /\ PlacedLevels(tp_arms[arm_id]) = {0, 1, 2}
        /\ [k \in 1 .. Len(upstream) |-> upstream[k].level] = <<0, 1, 2>>
        /\ tasks[arm_id].pc = "done"

\* C16 as stated: in every state where an arm's status is completed, every level
\* index of the arm has a placed_levels entry with status "placed".
C16_AsStated ==
    \A arm_id \in DOMAIN tp_arms :
        tp_arms[arm_id].status = "completed"
        => PlacedLevels(tp_arms[arm_id]) = 0 .. Len(tp_arms[arm_id].levels) - 1

\* the arm has a terminal status and its monitor has returned
Terminated(arm_id) ==
    /\ arm_id \in DOMAIN tp_arms
    /\ tp_arms[arm_id].status \in {"completed", "timeout"}
    /\ tasks[arm_id].pc = "done"

\* C17: with the monitors scheduled, the exchange answering and the clock advancing,
\* every arm that /api/tp/arm created eventually has status completed or timeout
\* with its monitor task returned, whatever the exchange answers.
C17_Terminates ==
    \A k \in 1 .. MaxArms : (ArmIds[k] \in DOMAIN tp_arms) ~> Terminated(ArmIds[k])

\* two arms ended in the two ways: one completed, the other timed out after polls
\* that failed
C17_Witness ==
    /\ Terminated("tp_1") /\ Terminated("tp_2")
    /\ tp_arms["tp_1"].status # tp_arms["tp_2"].status
    /\ \E arm_id \in DOMAIN tp_arms : CountEvents(tp_arms[arm_id].events, "poll_error") >= 1

\* the relation between mode, signature_type and the addresses of a trading context
ContextConsistent(context) ==
    /\ context.mode \in {"proxy", "eoa"}
    /\ context.mode = "proxy" <=> context.signature_type = 2
    /\ context.signature_type = 2
       <=> /\ context.trading_address = context.funder_address
           /\ context.trading_address # context.eoa_address
    /\ context.mode = "eoa" <=> context.signature_type = 0
    /\ context.signature_type = 0
       <=> /\ context.trading_address = context.eoa_address
           /\ context.funder_address = ""

\* the last request was a handshake that succeeded
Verified == last.ep = "verify" /\ last.status = 200

\* C18: every trading context the resolver returns, as answered by /api/auth/verify
\* and as kept in the session, has mode proxy iff signature_type 2 iff trading_address
\* is the funder_address and not the EOA, and mode eoa iff signature_type 0 iff
\* trading_address is the EOA and there is no funder_address.
C18_ContextConsistent ==
    /\ Verified => ContextConsistent(last.body.trading_context)
    /\ \A token \in DOMAIN sessions : ContextConsistent(sessions[token].trading_context)

\* a handshake answered with the context of a proxy wallet
C18_Witness ==
    /\ Verified
    /\ last.body.trading_context.mode = "proxy"
    /\ last.body.trading_context.funder_address = ProxyAddress
    /\ \E token \in DOMAIN sessions :
           sessions[token].trading_context = last.body.trading_context

\* the arm the monitor got from get_tp_arm, as the monitor reads it
HeldArm(arm_id) == Deref(tasks[arm_id].arm)

\* C19 as stated, for the arm a monitor holds: while the monitor keeps the value that
\* get_tp_arm handed out, no later mutation inside the Store changes what that value
\* reads as.
C19_AsStated ==
    [][ \A arm_id \in DOMAIN tasks :
          (tasks[arm_id].pc # "start" /\ tasks'[arm_id].arm = tasks[arm_id].arm)
          => HeldArm(arm_id)' = HeldArm(arm_id) ]_vars

\* the threads that returned from a call of the given kind with a true result
\* (the record, for consume_nonce)
ReturnedOk(calls) ==
    { w \in DOMAIN tasks :
        tasks[w].pc = "returned" /\ tasks[w].call \in calls /\ tasks[w].result.ok }

Returned(calls) == { w \in DOMAIN tasks : tasks[w].pc = "returned" /\ tasks[w].call \in calls }

\* the calls of consume_nonce for the address 0xaa, in either spelling, and its nonce
SameNonceCalls == { ConsumeCall(address, 1) : address \in {"0xAA", "0xaa"} }

ConsumeMismatch ==
    /\ Handled("verify")
    /\ last'.status = 400 /\ last'.detail = "Nonce is invalid or expired"
    /\ Lower(last'.req.address) \in DOMAIN nonces
    /\ ~NonceExpired(nonces[Lower(last'.req.address)])
    /\ nonces[Lower(last'.req.address)].nonce # last'.req.nonce

\* C21 as stated: after consume_nonce is called with a nonce that does not match the
\* stored, unexpired record of the address, the record is no longer in the Store.
C21_AsStated ==
    [][ ConsumeMismatch => Lower(last'.req.address) \notin DOMAIN nonces' ]_vars

\* the nonce issued last (all nonces of the handshake are issued to the one address
\* 0xaa, spelled "0xaa" or "0xAA")
LatestNonce == next_id.nonce - 1

\* C22: the Store keeps one nonce record per address, under the lower-case address;
\* once a second nonce is issued to an address, in either spelling, consume_nonce hands
\* out the record of the latest nonce only, and /auth/verify with an earlier nonce is
\* refused and creates no session.
C22_OneOutstanding ==
    /\ [](/\ \A key \in DOMAIN nonces : key = Lower(key)
          /\ Cardinality(DOMAIN nonces) <= 1)
    /\ [][ /\ \A n \in DOMAIN consumed : consumed'[n] # consumed[n] => n = LatestNonce
           /\ (Handled("verify") /\ last'.req.nonce < LatestNonce)
              => /\ sessions' = sessions
                 /\ last'.cookie = 0
                 /\ \/ last'.status = 429
                    \/ last'.status = 400 /\ last'.detail = "Invalid EVM address"
                                          /\ last'.req.address = NotAnAddress
                    \/ last'.status = 400 /\ last'.detail = "Nonce is invalid or expired"
         ]_vars

\* two nonces were issued; the first, never consumed, was presented and refused while
\* the second is stored and not expired
C22_Witness ==
    /\ LatestNonce = 2
    /\ last.ep = "verify" /\ last.req.nonce = 1 /\ consumed[1] = 0
    /\ last.status = 400 /\ last.detail = "Nonce is invalid or expired"
    /\ "0xaa" \in DOMAIN nonces /\ nonces["0xaa"].nonce = 2 /\ ~NonceExpired(nonces["0xaa"])

\* extract_filled_tokens was called
Extracted == last.ep = "extract_filled_tokens" /\ last.n = 1

\* C23 as stated: for every order payload and every positive entry size S,
\* extract_filled_tokens returns a value between 0 and S.
C23_AsStated ==
    Extracted => /\ ~last.body.raises
                 /\ 0 <= last.body.val
                 /\ last.body.val <= last.req.entry_size_tokens

\* C24: for every signed order that normalization accepts, normalizing the normalized
\* order succeeds and gives the same order.
C24_Idempotent ==
    (last.ep = "normalize" /\ last.n = 2)
    => /\ ~last.body.raises
       /\ last.body.order = last.calls[2].order

\* an order written with spaces, hex, a float and a numeric side was normalized
\* twice: the first normalization rewrote every field
C24_Witness ==
    /\ last.ep = "normalize" /\ last.n = 2
    /\ last.req["maker"] = JStr("0xAa")
    /\ last.req["tokenId"] = JStr("101")
    /\ last.req["side"] = JStr("SELL")
    /\ last.req["salt"] = JInt("1")
    /\ last.req["signatureType"] = JInt("1")
    /\ last.calls[1]["maker"] = JStr(" 0xaa ")
    /\ last.calls[1]["tokenId"] = JStr("0x65")
    /\ last.calls[1]["side"] = JStr("1")
    /\ last.calls[1]["salt"] = JFloat("1.5")
    /\ last.calls[1]["signatureType"] = JStr("0X1")
    /\ last.calls[1]["signature"] = JStr(" 0xsig ")
    /\ ~last.body.raises

\* the size_pct values add up to a value within 0.2 of 100.0
WithinBand(levels) == SumPct(levels) >= 998 /\ SumPct(levels) <= 1002

\* C25: every arm that /api/tp/arm accepted has one to three levels whose size_pct
\* add up to a value within 0.2 of 100.0, and a request whose levels add up to a value
\* outside that band is refused and creates no arm.
C25_LevelsSum ==
    /\ [](\A arm_id \in DOMAIN tp_arms :
            /\ Len(tp_arms[arm_id].levels) \in 1 .. 3
            /\ WithinBand(tp_arms[arm_id].levels))
    /\ [][ \A payload \in LevelArmRequests :
             (arm_tp(1, payload, MaxArms) /\ ~WithinBand(payload.levels))
             => /\ tp_arms' = tp_arms /\ tasks' = tasks
                /\ last'.status \in {401, 422} ]_vars

\* an arm whose levels add up to 100.2 is stored, and a request was just refused
\* with 422
C25_Witness ==
    /\ \E arm_id \in DOMAIN tp_arms : SumPct(tp_arms[arm_id].levels) = 1002
    /\ last.ep = "tp_arm" /\ last.status = 422

\* clamp(filled_tokens / entry_size_tokens, 0, 1) >= (size_pct[0] + ... + size_pct[idx]) / 100,
\* for the fill the current poll of the arm's monitor recorded
Crossed(arm, idx) ==
    /\ idx < Len(arm.levels)
    /\ Max(0, Min(arm.last_filled_tokens, arm.entry_size_tokens)) * 1000
           >= SumPct(SubSeq(arm.levels, 1, idx + 1)) * arm.entry_size_tokens

\* C26: post_signed_order is called for a level only in an iteration whose poll gave
\* a fill ratio at or above the level's cumulative threshold, and an entry of the
\* stored placed_levels stays as it is whatever later polls report.
C26_ThresholdCrossed ==
    [][ \A arm_id \in DOMAIN tp_arms :
          /\ \A idx \in 0 .. MaxLevels - 1 :
                PostsFor(arm_id, idx)' # PostsFor(arm_id, idx)
                => Crossed(tp_arms[arm_id], idx)
          /\ \A key \in DOMAIN tp_arms[arm_id].placed_levels :
                /\ key \in DOMAIN tp_arms'[arm_id].placed_levels
                /\ tp_arms'[arm_id].placed_levels[key] = tp_arms[arm_id].placed_levels[key]
      ]_vars

\* level 0 was posted once and is stored as placed while the last poll reports a fill
\* below its threshold, and the monitor has been through the levels again
C26_Witness ==
    \E arm_id \in DOMAIN tp_arms :
        /\ "0" \in DOMAIN tp_arms[arm_id].placed_levels
        /\ tp_arms[arm_id].placed_levels["0"].status = "placed"
        /\ Cardinality(PostsFor(arm_id, 0)) = 1
        /\ ~Crossed(tp_arms[arm_id], 0)
        /\ tasks[arm_id].pc = "loop"
        /\ tp_arms[arm_id].last_filled_tokens = tasks[arm_id].filled_tokens

\* the monitor of the arm takes the step of the for loop for a level whose threshold is
\* crossed, which has no entry yet and no signed order
MissingOrderStep(arm_id) ==
    /\ tasks[arm_id].pc = "levels"
    /\ tasks'[arm_id] # tasks[arm_id]
    /\ Crossed(tp_arms[arm_id], tasks[arm_id].idx)
    /\ IdxStr(tasks[arm_id].idx) \notin DOMAIN tasks[arm_id].placed_levels
    /\ tasks[arm_id].idx \notin DOMAIN tp_arms[arm_id].signed_tp_orders

\* C27: when the threshold of a level is crossed and the arm has no signed order for
\* it, the monitor puts an entry of status "error" for the level into the
\* placed_levels of the iteration, posts nothing, and goes on with the next level of
\* the same iteration (or to the end of the iteration, which stores placed_levels);
\* no post_signed_order call is ever made for such a level.
C27_MissingOrder ==
    /\ [][ \A arm_id \in DOMAIN tasks :
             /\ MissingOrderStep(arm_id)
                => LET idx == tasks[arm_id].idx IN
                   /\ IdxStr(idx) \in DOMAIN tasks'[arm_id].placed_levels
                   /\ tasks'[arm_id].placed_levels[IdxStr(idx)].status = "error"
                   /\ upstream' = upstream
                   /\ IF idx + 1 < Len(tp_arms[arm_id].levels)
                      THEN tasks'[arm_id].pc = "levels" /\ tasks'[arm_id].idx = idx + 1
                      ELSE tasks'[arm_id].pc = "finish"
             /\ (tasks[arm_id].pc = "finish" /\ tasks'[arm_id] # tasks[arm_id])
                => tp_arms'[arm_id].placed_levels = tasks[arm_id].placed_levels ]_vars
    /\ [](\A arm_id \in DOMAIN tp_arms : \A idx \in 0 .. MaxLevels - 1 :
             idx \notin DOMAIN tp_arms[arm_id].signed_tp_orders => PostsFor(arm_id, idx) = {})

\* level 0 had no signed order: it is stored with status "error", nothing was posted
\* for it, and level 1 was posted and placed in the same iteration
C27_Witness ==
    \E arm_id \in DOMAIN tp_arms :
        /\ DOMAIN tp_arms[arm_id].placed_levels = {"0", "1"}
        /\ tp_arms[arm_id].placed_levels["0"].status = "error"
        /\ tp_arms[arm_id].placed_levels["1"].status = "placed"
        /\ PostsFor(arm_id, 0) = {}
        /\ Cardinality(PostsFor(arm_id, 1)) = 1

\* the levels named by the tp_placed events of the arm's event log
EventLevels(arm) ==
    { arm.events[k].level : k \in { j \in 1 .. Len(arm.events) : arm.events[j].event = "tp_placed" } }

\* the levels of the arm for which a post_signed_order call returned
PostedLevels(arm_id) ==
    { upstream[k].level :
        k \in { j \in 1 .. Len(upstream) : upstream[j].arm_id = arm_id /\ upstream[j].ok } }

\* C28: once the monitor has finished an iteration, every level whose post returned
\* is stored with status "placed", and the levels named by tp_placed events are
\* exactly the levels stored as placed.
C28_AsStated ==
    \A arm_id \in DOMAIN tasks :
        BetweenIterations(arm_id)
        => /\ PostedLevels(arm_id) \subseteq PlacedLevels(tp_arms[arm_id])
           /\ EventLevels(tp_arms[arm_id]) = PlacedLevels(tp_arms[arm_id])

\* the last poll of the arm reported the entry order filled entirely
FullyFilled(arm) == arm.last_filled_tokens = arm.entry_size_tokens

\* C29: for every ladder that /api/tp/arm accepts, with a signed order for every level
\* and all posts succeeding, an iteration that polls the entry order as filled
\* entirely leaves every level placed and the arm completed.
C29_AsStated ==
    \A arm_id \in DOMAIN tasks :
        (BetweenIterations(arm_id) /\ FullyFilled(tp_arms[arm_id]))
        => /\ PlacedLevels(tp_arms[arm_id]) = 0 .. Len(tp_arms[arm_id].levels) - 1
           /\ tp_arms[arm_id].status = "completed"

\* the request of the response was forwarded to the CLOB
Forwarded(response) == response.calls # <<>> /\ response.calls[1].sent

\* C30: a limit request that is refused (by field validation, by signature recovery
\* or by an upstream error) leaves its idempotency_key unmarked, so that a retry is
\* processed again: a key becomes marked only by a request that was forwarded to
\* the CLOB and answered with success.
C30_AsStated ==
    [][ \A r \in RetryRequests :
          (LimitHandled(r) /\ r[2].idempotency_key.text \in idempotency_keys' \ idempotency_keys)
          => Forwarded(last') /\ last'.status = 200 ]_vars

\* every post for a level of the arm comes after a post for each lower level that
\* has a signed order
PostedInOrder(arm_id) ==
    \A k \in 1 .. Len(upstream) :
        upstream[k].arm_id = arm_id
        => \A j \in 0 .. upstream[k].level - 1 :
              j \in DOMAIN tp_arms[arm_id].signed_tp_orders
              => \E h \in 1 .. k - 1 : upstream[h].arm_id = arm_id /\ upstream[h].level = j

\* C31: in every state, a level that placed_levels records as placed has an entry
\* for every lower level below it, and no level is posted before the lower levels
\* have been attempted.
C31_AsStated ==
    \A arm_id \in DOMAIN tp_arms :
        /\ \A i \in PlacedLevels(tp_arms[arm_id]) :
              \A j \in 0 .. i - 1 : IdxStr(j) \in DOMAIN tp_arms[arm_id].placed_levels
        /\ PostedInOrder(arm_id)

\* the second half of C31 alone
C31_PostedInOrder == \A arm_id \in DOMAIN tp_arms : PostedInOrder(arm_id)

\* the request before this one came from the other session, carried the only key
\* that is marked and was not answered "duplicate": it is the request that marked
\* the key, so this session has not used the key before
OnlyOtherSessionUsed(key) ==
    /\ idempotency_keys = {key}
    /\ last.ep = "limit"
    /\ last.req.cookie = 2
    /\ last.status = 200
    /\ ~AnsweredDuplicate(last)

\* a limit request of session 1 is not answered "duplicate" on account of a key that
\* only session 2 has used
C32_SessionsStep ==
    \A r \in KeyRequests :
        (r[1] = 1 /\ LimitHandled(r) /\ OnlyOtherSessionUsed(r[2].idempotency_key.text))
        => ~AnsweredDuplicate(last')

\* the monitor's step for a level whose threshold is crossed, which has a signed
\* order, no entry and no post so far, posts the order
C32_MonitorStep ==
    \A arm_id \in DOMAIN tasks :
        ( /\ tasks[arm_id].pc = "levels"
          /\ tasks'[arm_id] # tasks[arm_id]
          /\ Crossed(tp_arms[arm_id], tasks[arm_id].idx)
          /\ IdxStr(tasks[arm_id].idx) \notin DOMAIN tasks[arm_id].placed_levels
          /\ tasks[arm_id].idx \in DOMAIN tp_arms[arm_id].signed_tp_orders
          /\ PostsFor(arm_id, tasks[arm_id].idx) = {} )
        => upstream' # upstream

\* C32: whether a session's limit request is processed or answered "duplicate" does
\* not depend on the keys other sessions have sent, and no key sent by a client
\* makes the monitor skip the placement of a level.
C32_AsStated == [][C32_SessionsStep /\ C32_MonitorStep]_vars

\* C33: a signed TP order, identified by its signature, is sent to the CLOB at most
\* once, also when /api/tp/arm is called again with the same entry order and the
\* same signed TP orders.
C33_AsStated ==
    \A k, h \in 1 .. Len(upstream) :
        ( /\ upstream[k].sent
          /\ upstream[h].sent
          /\ upstream[k].signed_order.signature = upstream[h].signed_order.signature )
        => k = h

\* the verify request of the step passed the rate limiter and the address check
VerifyReachedNonce ==
    /\ Handled("verify")
    /\ last'.status # 429
    /\ validate_eth_address(last'.req.address)

\* the Store holds an unexpired record for the address of the verify request
LiveRecord == 
    /\ Lower(last'.req.address) \in DOMAIN nonces
    /\ ~NonceExpired(nonces[Lower(last'.req.address)])

\* C34: an /auth/verify whose nonce matches the stored unexpired record removes the
\* record whatever the later checks say, and creates no session unless it is
\* answered 200; a nonce consumed before is never accepted again; a verify answered
\* 429, or one whose nonce differs from that of the unexpired record, leaves the
\* stored records as they are.
C34_NonceSpent ==
    [][ /\ (VerifyReachedNonce /\ LiveRecord
              /\ nonces[Lower(last'.req.address)].nonce = last'.req.nonce)
           => /\ Lower(last'.req.address) \notin DOMAIN nonces'
              /\ last'.status # 200 => (sessions' = sessions /\ last'.cookie = 0)
        /\ (Handled("verify") /\ consumed[last'.req.nonce] >= 1)
           => /\ last'.status # 200
              /\ sessions' = sessions
              /\ last'.status = 400 /\ validate_eth_address(last'.req.address)
                 => last'.detail = "Nonce is invalid or expired"
        /\ (Handled("verify") /\ last'.status = 429) => nonces' = nonces
        /\ (VerifyReachedNonce /\ LiveRecord
              /\ nonces[Lower(last'.req.address)].nonce # last'.req.nonce)
           => nonces' = nonces /\ last'.detail = "Nonce is invalid or expired"
      ]_vars

\* a verify with the matching nonce failed a later check: the nonce is spent, no
\* record and no session is left
C34_Witness ==
    /\ last.ep = "verify"
    /\ last.status = 400
    /\ last.detail \in {"Signed message mismatch", "SIWE signature address mismatch"}
    /\ consumed[last.req.nonce] = 1
    /\ nonces = EmptyDict
    /\ sessions = EmptyDict

\* the arm_ids of the arms that belong to the session of the cookie and that a status
\* request for arm_id ("" for all) asks for
OwnArms(cookie, arm_id) ==
    { a \in DOMAIN tp_arms :
        /\ Lower(tp_arms[a].eoa_address) = Lower(sessions[cookie].eoa_address)
        /\ arm_id = "" \/ a = arm_id }

\* C35: /api/tp/status of a live session returns exactly the arms whose owner is the
\* session's EOA, compared without regard to case, among all arms or for the arm_id
\* given; the arm_id of another user's arm or of no arm gives the empty list; the
\* request changes nothing in the Store.
C35_OwnArmsOnly ==
    [][ \A c \in TradeCookies, arm_id \in StatusArmIds :
          (SessionLive(c) /\ get_tp_status(c, arm_id))
          => LET arms == last'.body.arms IN
             /\ last'.status = 200
             /\ { arms[k].arm_id : k \in 1 .. Len(arms) } = OwnArms(c, arm_id)
             /\ Len(arms) = Cardinality(OwnArms(c, arm_id))
             /\ \A k \in 1 .. Len(arms) : arms[k] = tp_arms[arms[k].arm_id]
             /\ UNCHANGED <<now, nonces, sessions, rate_limits, tp_arms, idempotency_keys,
                            tasks, next_id, upstream, admitted, consumed>> ]_vars

\* the session of 0xaa was listed the arm that 0xAA armed and not the arm of 0xbb
C35_Witness ==
    /\ last.ep = "tp_status"
    /\ last.req.cookie = 3
    /\ last.status = 200
    /\ Len(last.body.arms) = 1
    /\ last.body.arms[1].eoa_address = "0xAA"
    /\ \E a \in DOMAIN tp_arms : tp_arms[a].eoa_address = "0xbb"

\* the fields of an arm that TpEngine.arm copies from the session
Snapshot(arm) ==
    [eoa_address |-> arm.eoa_address, clob_creds |-> arm.clob_creds,
     trading_context |-> arm.trading_context]

\* C36: the credentials and the trading context an arm holds never change, every
\* order the monitor posts is posted with the credentials of the arm, no step of
\* the monitor touches the sessions, and, the session that armed being live,
\* expired or deleted, the monitor goes on until the arm is completed or timed out.
C36_Snapshot ==
    /\ [][ /\ \A a \in DOMAIN tp_arms :
                 a \in DOMAIN tp_arms' /\ Snapshot(tp_arms'[a]) = Snapshot(tp_arms[a])
           /\ \A a \in DOMAIN tp_arms' :
                 Snapshot(tp_arms'[a]) = Snapshot([eoa_address |-> "0xAA",
                                                   clob_creds |-> LoggedIn(1, "0xAA", "none").clob_creds,
                                                   trading_context |-> LoggedIn(1, "0xAA", "none").trading_context])
           /\ upstream' # upstream
              => /\ upstream'[Len(upstream')].creds
                      = tp_arms[upstream'[Len(upstream')].arm_id].eoa_address
                 /\ sessions' = sessions
         ]_vars
    /\ ("tp_1" \in DOMAIN tp_arms) ~> Terminated("tp_1")

\* the arm was completed by an iteration that ran at time 2 or later, when the
\* session that armed it (expires_at 1) had expired or was deleted
C36_Witness ==
    /\ "tp_1" \in DOMAIN tp_arms
    /\ tp_arms["tp_1"].status = "completed"
    /\ PlacedLevels(tp_arms["tp_1"]) = {0, 1}
    /\ tasks["tp_1"].wake_at >= 2 + TP_POLL_SECONDS
    /\ ~SessionLive(1)
    /\ now >= 2

\* the verify request of the step got as far as the credential calls
DerivationReached == Handled("verify") /\ last'.calls # <<>>

\* what C37 lays down for a verify request that reached the credential calls, given
\* what counts as a failed call: the POST comes first and the GET only after a failed
\* POST; two failed calls give the error that carries both status codes; a 200 means
\* a session with a key, a secret and a passphrase; any other answer is one of the
\* two credential errors and creates no session
DerivationStep(Failed(_)) ==
    DerivationReached
    => LET calls == last'.calls IN
       /\ calls[1].call = "POST /auth/api-key"
       /\ Len(calls) <= 2
       /\ Len(calls) = 2
          => calls[2].call = "GET /auth/derive-api-key" /\ Failed(calls[1].status)
       /\ (Len(calls) = 2 /\ Failed(calls[1].status) /\ Failed(calls[2].status))
          => /\ last'.status = 400
             /\ last'.detail = "Failed to derive CLOB API credentials"
             /\ last'.body = [create |-> calls[1].status, derive |-> calls[2].status]
       /\ last'.status = 200
          => \A f \in {"api_key", "api_secret", "api_passphrase"} :
                 sessions'[last'.cookie].clob_creds[f] # <<>>
       /\ last'.status # 200
          => /\ sessions' = sessions /\ last'.cookie = 0
             /\ last'.detail \in {"Failed to derive CLOB API credentials",
                                  "CLOB credential payload missing fields"}

Non2xx(status_code) == ~(status_code \in 200 .. 299)

ClientOrServerError(status_code) == status_code >= 400

\* C37 as stated: a failed call is one answered with a status that is not 2xx.
C37_AsStated == [][DerivationStep(Non2xx)]_vars

\* C37: the GET /auth/derive-api-key is made only after POST /auth/api-key was
\* answered with a status of 400 or above; when both are answered with 400 or above
\* the verify fails with the error carrying both status codes; a response without
\* apiKey, secret or passphrase fails; no failing case creates a session.
C37_Derivation == [][DerivationStep(ClientOrServerError)]_vars

\* both credential calls were answered 500: the error carries both codes and no
\* session exists
C37_Witness ==
    /\ last.ep = "verify"
    /\ last.status = 400
    /\ Len(last.calls) = 2
    /\ last.body = [create |-> 500, derive |-> 500]
    /\ sessions = EmptyDict

RECURSIVE MaxAmount(_, _)
\* the largest of the first n values (numbers, in thousandths)
MaxAmount(values, n) ==
    IF n = 1 THEN values[1].v ELSE Max(MaxAmount(values, n - 1), values[n].v)

\* the status of the order does not say filled and no value under a percentage key
\* is a number from 0 to 100
AmountRuleApplies ==
    /\ Extracted
    /\ ~StatusSaysFilled(last.req.order_payload.status)
    /\ \A k \in 1 .. Len(last.req.order_payload.pct_values) :
          LET pct == last.req.order_payload.pct_values[k]
          IN ~(pct.t = "num" /\ 0 <= pct.v /\ pct.v <= 100000)

\* what C39 says the amount rule gives: the maximum of the values, divided by 1e6
\* if it exceeds 1000 * entry_size_tokens, clamped to [0, entry_size_tokens]; 0
\* without a value (an integer beyond a float exceeds every bound)
AmountRuleAsStated(amount_values, entry_size_tokens) ==
    IF amount_values = <<>> THEN 0
    ELSE IF \E k \in 1 .. Len(amount_values) : amount_values[k].t = "huge"
    THEN entry_size_tokens
    ELSE LET m == MaxAmount(amount_values, Len(amount_values))
             scaled == IF m > 1000 * entry_size_tokens THEN m \div 1000000 ELSE m
         IN Max(0, Min(entry_size_tokens, scaled))

\* C39: when no status or percentage rule applies, extract_filled_tokens returns the
\* maximum of the numerics under amount-like keys, divided by 1e6 if that maximum
\* exceeds 1000 * entry_size_tokens, clamped to [0, entry_size_tokens], and 0 when
\* there is no such value.
C39_AsStated ==
    AmountRuleApplies
    => /\ ~last.body.raises
       /\ last.body.val = AmountRuleAsStated(last.req.order_payload.amount_values,
                                             last.req.entry_size_tokens)

\* a scalar under a status key is a string that contains "filled" and not "partial"
SaysFilled(scalar) == scalar.t = "str" /\ scalar.v = "filled"

\* such a field is in the payload, at the top or in a nested dict
AnyFilled(items) ==
    \E i \in 1 .. Len(items) :
        \/ SaysFilled(items[i])
        \/ \E j \in 1 .. Len(items[i].fields) : SaysFilled(items[i].fields[j])

\* C38: if any field of the payload keyed status, state or order_status, at any
\* depth, is a string that contains "filled" and not "partial", extract_filled_tokens
\* returns entry_size_tokens, whatever other status fields come before it.
C38_AsStated ==
    (last.ep = "extract_status" /\ last.n = 1 /\ AnyFilled(last.req.order_payload.statuses))
    => /\ ~last.body.raises
       /\ last.body.val = last.req.entry_size_tokens

\* the decimal text of a non-negative integer
NonNegativeDecimal(text) == text \in {"0", "1", "2", "5", "101", "170", "9007199254740992"}

\* the value, as the client wrote it, is a boolean or a negative integer
BoolOrNegative(value) ==
    \/ value.t = "bool"
    \/ to_int(value).ok /\ to_int(value).n = "-5"

\* C40: every signed order that normalization lets through to the CLOB has salt in
\* [0, 2^53 - 1] and tokenId, makerAmount, takerAmount, expiration, nonce and
\* feeRateBps as decimal strings of non-negative integers; an order with a boolean,
\* an out-of-range salt or a negative value in one of these fields is rejected.
C40_AsStated ==
    (last.ep = "normalize" /\ last.n = 1)
    => /\ ~last.body.raises
          => /\ last.body.order["salt"].t = "int"
             /\ NonNegativeDecimal(last.body.order["salt"].v)
             /\ last.body.order["salt"].v # "9007199254740992"
             /\ \A f \in TextIntFields :
                   /\ last.body.order[f].t = "str"
                   /\ NonNegativeDecimal(last.body.order[f].v)
       /\ ( \/ \E f \in TextIntFields \cup {"salt"} : BoolOrNegative(last.req[f])
            \/ to_int(last.req["salt"]).n = "9007199254740992" )
          => last.body.raises

====
